---- MODULE Spec2Model ----
(***************************************************************************)
(* Verification model of recursive_remote: the inner-hash ratchet          *)
(* (update.rs), the push path (cmd_push.rs, persistence.rs) and the fetch  *)
(* path (cmd_fetch.rs).                                                    *)
(*                                                                         *)
(* Options are sequences of length 0 or 1: None is <<>>, Some(x) is <<x>>. *)
(***************************************************************************)
EXTENDS Integers, Sequences, FiniteSets, TLC

\* ------------------------------------------------------------------ bounds

\* Commits (one state each) that the processes may create in a behaviour.
MaxCommits == 3

\* ------------------------------------------------------------- option type

None == <<>>

Some(x) == <<x>>

IsSome(o) == o # <<>>

Unwrap(o) == o[1]

\* Vec::contains / slice::contains, element equality being the derived ==.
Contains(seq, x) == \E i \in 1..Len(seq) : seq[i] = x

\* ------------------------------------------------------------------- state

\* The user repositories, each with its own tracking and objects-ever stores.
Clients == {1, 2}

\* The user repositories in which list and fetch are run; the others push.
Fetchers == {1}

\* Namespace names that a remote may be configured with.
NamespaceNames == {"a", "b"}

VARIABLES
    commits,        \* every state commit created so far, by commit id
    upstream,       \* Option: the commit of the configured upstream branch
    published,      \* commit ids the upstream branch has ever pointed to
    config,         \* config[c].namespace: the namespace configured by c
    tracking_ref,   \* tracking_ref[c]: Option commit id (config.tracking_ref)
    pushing_ref,    \* pushing_ref[c]: Option commit id (config.pushing_ref)
    basis_ref,      \* basis_ref[c]: Option commit id (config.basis_ref)
    pc,             \* pc[c]: "idle", or "committed" inside attempt_push
    attempt,        \* attempt[c]: what attempt_push keeps between its steps
    last_tracked,   \* last_tracked[c]: the last commit tracking_ref[c] held
    event,          \* what the last operation was and how it ended
    attempts,       \* push(): calls of attempt_push made by the retry loop
    returned,       \* push(): "none" while it runs, else how it returned
    last_attempt,   \* push(): what the last call of attempt_push went through
    push_status,    \* push(): Option, the map carried by PushResult::Ok
    stdout,         \* push(): the lines written to standard output, in order
    odb,            \* the objects-ever repository: object id -> kind and parents
    last_push,      \* update_namespace_with_push: its last call and its result
    last_batch,     \* update_namespace_with_push: its last batch and its result
    payload,        \* codec: the bytes, key and chunk size handed to encode
    encoded,        \* codec: Option, what encode returned for the payload
    decoded,        \* codec: the last decode of the encoded BlobRef
    reencoded,      \* codec: Option, encode of the payload at another chunk size
    mem_state,      \* serialization: an in-memory State, maps in iteration order
    serialized,     \* serialization: Option, the bincode bytes of mem_state
    deserialized,   \* serialization: Option, the State read back from the bytes
    reserialized,   \* serialization: Option, the bincode bytes of that State
    mem_namespace,  \* serialization: an in-memory Namespace, refs in iteration order
    namespace_back, \* serialization: Option, the Namespace converted there and back
    stdin,          \* main: the lines of standard input not read yet
    printed,        \* main: what the handlers wrote, one entry per line
    ran,            \* main: the handlers that ran, with the batch they got
    exited,         \* main: "no" while the loop runs, else "ok" or "error"
    stage,          \* stage[p]: where helper process p is in git_special_remote_main
    flock,          \* the processes holding the lock file of the user repository
    commands,       \* commands[p]: the commands process p has handled
    parents_of,     \* ratchet walk: the parents of each stored state
    decodes_as,     \* ratchet walk: how decode_state ends for each stored state
    walk_current,   \* ratchet walk: the state `current` names
    walk_stack,     \* ratchet walk: the stack of valid_path_exists
    walk_result,    \* ratchet walk: "running", or what the function returned
    anchor_refs,    \* objects-ever store: the commits its anchor refs point at
    ever_commits,   \* objects-ever store: commit id -> the parents of the commit
    anchor_op,      \* objects-ever store: the last operation and what it started from
    gc_auto,        \* gc_auto[s]: the gc.auto value in the config file of store s
    maintenance,    \* maintenance[s]: where the initialize thread of store s is
    initialized     \* what initialize_state_repo returned, "running" while it runs

protocol_vars == <<commits, upstream, published, config, tracking_ref,
                   pushing_ref, basis_ref, pc, attempt, last_tracked, event>>

loop_vars == <<attempts, returned, last_attempt, push_status, stdout>>

ff_vars == <<odb, last_push, last_batch>>

codec_vars == <<payload, encoded, decoded, reencoded>>

ser_vars == <<mem_state, serialized, deserialized, reserialized,
             mem_namespace, namespace_back>>

main_vars == <<stdin, printed, ran, exited>>

lock_vars == <<stage, flock, commands>>

walk_vars == <<parents_of, decodes_as, walk_current, walk_stack, walk_result>>

store_vars == <<anchor_refs, ever_commits, anchor_op,
               gc_auto, maintenance, initialized>>

vars == <<protocol_vars, loop_vars, ff_vars, codec_vars, ser_vars,
         main_vars,
         lock_vars,
         walk_vars,
         store_vars>>

\* ------------------------------------------------- serialization.rs types

\* StateRef(BlobRef {resource_key, sha256}) of the state stored by commit n.
\* Every commit encodes its own state, so n names both the blobs and the hash.
StateRefOf(n) == [resource_key |-> n, sha256 |-> n]

\* NamespaceRef(BlobRef) of the namespace record written by commit n.
NamespaceRefOf(n) == [resource_key |-> n, sha256 |-> n]

\* State::default(): no namespaces, no parents.
DefaultState == [namespaces |-> [n \in {} |-> None], parents |-> <<>>]

\* The StateRef resolved from a ref that points to commit n.
ResolveStateRef(ref) ==
    IF IsSome(ref) THEN Some(StateRefOf(Unwrap(ref))) ELSE None

\* encoding::decode_state: the state stored under a StateRef.
DecodeState(state_ref) == commits[state_ref.resource_key].state

\* encoding::decode_namespace: the namespace stored under a NamespaceRef.
DecodeNamespace(namespace_ref) == commits[namespace_ref.resource_key].namespace

\* -------------------------------------------------------- update.rs ratchet

\* The loop of valid_path_exists: pop the last entry of the stack, decode it,
\* answer true when its parents contain `current`, else append its parents.
RECURSIVE ValidPathWalk(_, _)
ValidPathWalk(stack, current) ==
    IF stack = <<>>
    THEN FALSE
    ELSE LET traverse == stack[Len(stack)]
             rest == SubSeq(stack, 1, Len(stack) - 1)
             state == DecodeState(traverse)
         IN  IF Contains(state.parents, current)
             THEN TRUE
             ELSE ValidPathWalk(rest \o state.parents, current)

\* valid_path_exists looking no further than the parents of `future`.
ValidPathExists_ParentsOnly(current, future) ==
    IF current.sha256 = future.sha256
    THEN TRUE
    ELSE Contains(DecodeState(future).parents, current)

\* valid_path_exists admitting every candidate.
ValidPathExists_AdmitsAll(current, future) == TRUE

\* valid_path_exists that also accepts a path from `current` back to `future`.
ValidPathExists_EitherDirection(current, future) ==
    \/ current.sha256 = future.sha256
    \/ ValidPathWalk(<<future>>, current)
    \/ ValidPathWalk(<<current>>, future)

\* valid_path_exists(current, future)
ValidPathExists(current, future) ==
    IF current.sha256 = future.sha256
    THEN TRUE
    ELSE ValidPathWalk(<<future>>, current)

\* update_pushing_branch without its first step: a scratch ref found in the
\* tracking store stays when the upstream has no branch to fetch.
UpdatePushingBranch_KeepsScratch(scratch) ==
    IF IsSome(upstream) THEN upstream ELSE scratch

\* update_pushing_branch: the scratch ref found in the tracking store is
\* deleted, then force-fetched from the upstream branch when ls-remote lists it.
UpdatePushingBranch(scratch) ==
    LET deleted == None
    IN  IF IsSome(upstream) THEN upstream ELSE deleted

\* update_tracking_branch writing the tracking ref before the ratchet check.
UpdateTrackingBranch_WritesFirst(tracking, pushing, basis) ==
    LET cur_oid == ResolveStateRef(tracking)
        fut_oid == ResolveStateRef(pushing)
        bas_oid == ResolveStateRef(basis)
    IN  IF IsSome(fut_oid)
        THEN [result |-> IF /\ IsSome(cur_oid)
                            /\ ~ValidPathExists(Unwrap(cur_oid), Unwrap(fut_oid))
                         THEN "RatchetError"
                         ELSE "Ok",
              tracking_ref |-> pushing,
              state_identifier |-> fut_oid,
              state |-> DecodeState(Unwrap(fut_oid)),
              basis_state |-> bas_oid,
              commit_id |-> pushing]
        ELSE [result |-> "Ok",
              tracking_ref |-> None,
              state_identifier |-> None,
              state |-> DefaultState,
              basis_state |-> bas_oid,
              commit_id |-> None]

\* A reconcile that keeps the tracking ref, and its state, when the candidate
\* is absent.
UpdateTrackingBranch_KeepsTracking(tracking, pushing, basis) ==
    LET cur_oid == ResolveStateRef(tracking)
        fut_oid == ResolveStateRef(pushing)
        bas_oid == ResolveStateRef(basis)
    IN  IF /\ IsSome(cur_oid)
           /\ IsSome(fut_oid)
           /\ ~ValidPathExists(Unwrap(cur_oid), Unwrap(fut_oid))
        THEN [result |-> "RatchetError",
              tracking_ref |-> tracking,
              state_identifier |-> None,
              state |-> DefaultState,
              basis_state |-> bas_oid,
              commit_id |-> None]
        ELSE IF IsSome(fut_oid) \/ IsSome(cur_oid)
        THEN LET kept == IF IsSome(fut_oid) THEN pushing ELSE tracking
             IN  [result |-> "Ok",
                  tracking_ref |-> kept,
                  state_identifier |-> ResolveStateRef(kept),
                  state |-> DecodeState(Unwrap(ResolveStateRef(kept))),
                  basis_state |-> bas_oid,
                  commit_id |-> kept]
        ELSE [result |-> "Ok",
              tracking_ref |-> None,
              state_identifier |-> None,
              state |-> DefaultState,
              basis_state |-> bas_oid,
              commit_id |-> None]

\* update_tracking_branch, given the refs of the tracking store. The result
\* holds the new value of the tracking ref and what the function returns.
UpdateTrackingBranch(tracking, pushing, basis) ==
    LET cur_oid == ResolveStateRef(tracking)
        fut_oid == ResolveStateRef(pushing)
        bas_oid == ResolveStateRef(basis)
    IN  IF /\ IsSome(cur_oid)
           /\ IsSome(fut_oid)
           /\ ~ValidPathExists(Unwrap(cur_oid), Unwrap(fut_oid))
        THEN [result |-> "RatchetError",
              tracking_ref |-> tracking,
              state_identifier |-> None,
              state |-> DefaultState,
              basis_state |-> bas_oid,
              commit_id |-> None]
        ELSE IF IsSome(fut_oid)
        THEN [result |-> "Ok",
              tracking_ref |-> pushing,
              state_identifier |-> fut_oid,
              state |-> DecodeState(Unwrap(fut_oid)),
              basis_state |-> bas_oid,
              commit_id |-> pushing]
        ELSE [result |-> "Ok",
              tracking_ref |-> None,
              state_identifier |-> None,
              state |-> DefaultState,
              basis_state |-> bas_oid,
              commit_id |-> None]

\* update_branches for client c: the scratch ref is refreshed from the
\* upstream first, then the ratchet decides about the tracking ref.
UpdateBranches(c) ==
    UpdateTrackingBranch(tracking_ref[c], UpdatePushingBranch(pushing_ref[c]),
                         basis_ref[c])

\* The tracking-store refs of c after update_branches returned r.
Reconciled(c, r) ==
    /\ pushing_ref' = [pushing_ref EXCEPT ![c] = UpdatePushingBranch(@)]
    /\ tracking_ref' = [tracking_ref EXCEPT ![c] = r.tracking_ref]
    /\ last_tracked' = [last_tracked EXCEPT ![c] =
                          IF IsSome(r.tracking_ref) THEN r.tracking_ref ELSE @]

\* ------------------------------------------------------- cmd_fetch.rs walk

\* The loop of materialize_ordered_pack_list. A stack entry is the pair
\* (state_identifier, state) of two Options; `ok` is FALSE when a walked state
\* has no record of the namespace (the "traverse" error).
RECURSIVE PackListWalk(_, _, _, _)
PackListWalk(stack, ordered_packs, basis, namespace_name) ==
    IF stack = <<>>
    THEN [ok |-> TRUE, packs |-> ordered_packs]
    ELSE LET top == stack[Len(stack)]
             rest == SubSeq(stack, 1, Len(stack) - 1)
         IN  IF /\ IsSome(basis)
                /\ IsSome(top.state_identifier)
                /\ Unwrap(basis) = Unwrap(top.state_identifier)
             THEN PackListWalk(rest, ordered_packs, basis, namespace_name)
             ELSE IF ~IsSome(top.state) /\ ~IsSome(top.state_identifier)
             THEN [ok |-> TRUE, packs |-> <<>>]
             ELSE LET state == IF IsSome(top.state)
                               THEN Unwrap(top.state)
                               ELSE DecodeState(Unwrap(top.state_identifier))
                  IN  IF namespace_name \notin DOMAIN state.namespaces
                      THEN [ok |-> FALSE, packs |-> <<>>]
                      ELSE LET namespace ==
                                   DecodeNamespace(state.namespaces[namespace_name])
                               pushed == [i \in 1..Len(state.parents) |->
                                            [state_identifier |-> Some(state.parents[i]),
                                             state |-> None]]
                           IN  PackListWalk(rest \o pushed,
                                            ordered_packs \o namespace.pack,
                                            basis, namespace_name)

\* A walk that never halts at the basis: it always goes back to the root.
MaterializeOrderedPackList_IgnoresBasis(namespace_name, state_identifier, state, basis) ==
    PackListWalk(<<[state_identifier |-> state_identifier, state |-> Some(state)]>>,
                 <<>>, None, namespace_name)

\* materialize_ordered_pack_list(config, state_identifier, state, basis_ref)
MaterializeOrderedPackList(namespace_name, state_identifier, state, basis) ==
    PackListWalk(<<[state_identifier |-> state_identifier, state |-> Some(state)]>>,
                 <<>>, basis, namespace_name)

\* A fetch that indexed the packs in the order the walk collected them.
Rev_CollectionOrder(seq) == seq

\* iter().rev(): the order in which fetch hands the packs to fetch_pack.
Rev(seq) == [i \in 1..Len(seq) |-> seq[Len(seq) + 1 - i]]

\* ------------------------------------------------ persistence.rs, push side

\* PackRef of the pack encoded by the attempt that creates commit n.
PackRefOf(n) == [blob_ref |-> [resource_key |-> n, sha256 |-> n], random_name |-> n]

\* Namespace::new() called while commit n is built: a fresh random name.
NewNamespace(n) == [pack |-> None, random_name |-> n]

\* The tail of update_namespace_with_push: the pack subprocess's output is
\* encoded, and the record keeps a PackRef only when it had bytes.
UpdateNamespacePack(namespace, size_positive, n) ==
    [namespace EXCEPT !.pack = IF size_positive THEN Some(PackRefOf(n)) ELSE None]

\* A state built from scratch: only the configured namespace is kept.
UpdateStateWithPush_DropsOthers(namespace_name, state, namespace_ref, parent_state_identifier) ==
    [namespaces |-> [k \in {namespace_name} |-> namespace_ref],
     parents |-> parent_state_identifier]

\* A state that keeps the parents of the state it was cloned from.
UpdateStateWithPush_KeepsParents(namespace_name, state, namespace_ref, parent_state_identifier) ==
    [namespaces |->
        [k \in DOMAIN state.namespaces \cup {namespace_name} |->
            IF k = namespace_name THEN namespace_ref ELSE state.namespaces[k]],
     parents |-> state.parents]

\* A state that records no parent.
UpdateStateWithPush_NoParents(namespace_name, state, namespace_ref, parent_state_identifier) ==
    [namespaces |->
        [k \in DOMAIN state.namespaces \cup {namespace_name} |->
            IF k = namespace_name THEN namespace_ref ELSE state.namespaces[k]],
     parents |-> <<>>]

\* update_state_with_push: parents are exactly the reconciled identifier, and
\* the configured namespace's entry is replaced by the new NamespaceRef.
UpdateStateWithPush(namespace_name, state, namespace_ref, parent_state_identifier) ==
    [namespaces |->
        [k \in DOMAIN state.namespaces \cup {namespace_name} |->
            IF k = namespace_name THEN namespace_ref ELSE state.namespaces[k]],
     parents |-> parent_state_identifier]

\* ----------------------------------------------- persistence.rs, the tree

\* A tree is the set of the objects under it, each with its path from the
\* root of the tree; an object is a chunk blob, or a tree of chunk blobs.
TreeEntry(path, oid) == [path |-> path, oid |-> oid]

\* What create_chunk_tree_or_blob gives for the chunks of a BlobRef.
ChunkObject(kind, blob_ref) == [kind |-> kind, key |-> blob_ref.resource_key]

\* NameTreePathComponents: a random name is split into leading components and
\* a rest, the directories of the name tree (two digits and a rest in hex).
NameTreePath(name) == <<ToString(name % 2), ToString(name \div 2)>>

\* Is path `p` the path `path` or a directory above it?
IsPrefix(p, path) ==
    /\ Len(p) <= Len(path)
    /\ SubSeq(path, 1, Len(p)) = p

\* Editor::upsert of one object at a path: what was at the path is replaced.
Upsert(tree, path, oid) ==
    {e \in tree : ~IsPrefix(path, e.path)} \cup {TreeEntry(path, oid)}

\* Editor::upsert of a written subtree under `name`.
UpsertTree(tree, name, subtree) ==
    {e \in tree : e.path[1] # name}
        \cup {TreeEntry(<<name>> \o e.path, e.oid) : e \in subtree}

\* create_treebuilder_at that always starts from the empty tree.
CreateTreebuilderAt_Empty(parent, name) == {}

\* create_treebuilder_at: an editor on the subtree `name` of the parent when
\* it has one, else on the empty tree.
CreateTreebuilderAt(parent, name) ==
    {TreeEntry(Tail(e.path), e.oid) :
        e \in {x \in parent : Len(x.path) > 1 /\ x.path[1] = name}}

\* insert_into_name_tree
InsertIntoNameTree(root, name, value) == Upsert(root, NameTreePath(name), value)

\* insert_metadata_chunk_tree: the object goes under a fresh random name into
\* the tree `name`, and under the logical name `name`.bincode.
InsertMetadataChunkTree(root, name, bincode, oid, forever_name) ==
    LET forever_tree ==
            InsertIntoNameTree(CreateTreebuilderAt(root, name), forever_name, oid)
    IN  Upsert(UpsertTree(root, name, forever_tree), <<bincode>>, oid)

\* create_namespace_tree: the namespace record, and the pack when the
\* namespace holds one, under the pack's random name.
CreateNamespaceTree(root, namespace, namespace_ref, forever_name) ==
    LET named == InsertMetadataChunkTree(root, "namespace", "namespace.bincode",
                                         ChunkObject("namespace", namespace_ref),
                                         forever_name)
    IN  IF IsSome(namespace.pack)
        THEN LET pack == Unwrap(namespace.pack)
                 pack_tree == InsertIntoNameTree(
                                  CreateTreebuilderAt(named, "pack"),
                                  pack.random_name,
                                  ChunkObject("pack", pack.blob_ref))
             IN  UpsertTree(named, "pack", pack_tree)
        ELSE named

\* The name of the tree of a namespace: ns_ and its random name.
NamespaceTreeName(namespace) == "ns_" \o ToString(namespace.random_name)

\* create_commit_tree on the root tree of the parent commit. `namespace` is
\* the record `state` names for namespace_name, `state_ref` the BlobRef of the
\* encoded state; the forever names are the random names drawn on the way.
CreateCommitTree(namespace_name, root, state, namespace, state_ref, forever_namespace, forever_state) ==
    LET namespace_ref == state.namespaces[namespace_name]
        name == NamespaceTreeName(namespace)
        namespace_tree ==
            CreateNamespaceTree(CreateTreebuilderAt(root, name), namespace,
                                namespace_ref, forever_namespace)
    IN  InsertMetadataChunkTree(UpsertTree(root, name, namespace_tree),
                                "state", "state.bincode",
                                ChunkObject("state", state_ref), forever_state)

\* do_commit: the root tree of the previous commit, or the empty tree.
RootTree(root_id) == IF IsSome(root_id) THEN commits[Unwrap(root_id)].tree ELSE {}

\* ------------------------------------------------------ cmd_push.rs, push

\* classify_failed_push_for_retry that never gives the error.
ClassifyFailedPushForRetry_AlwaysRetry(previous_state_identifier, new_state_identifier) ==
    "Retry"

\* classify_failed_push_for_retry
ClassifyFailedPushForRetry(previous_state_identifier, new_state_identifier) ==
    IF new_state_identifier # previous_state_identifier THEN "Retry" ELSE "Error"

\* The backend's own commit graph: is `old` the commit `new` or an ancestor?
RECURSIVE GitDescendantOrEqual(_, _)
GitDescendantOrEqual(new, old) ==
    \/ new = old
    \/ /\ IsSome(commits[new].parent)
       /\ GitDescendantOrEqual(Unwrap(commits[new].parent), old)

\* An upstream that takes every push, as a forced refspec would make it.
UpstreamAccepts_Forced(commit) == TRUE

\* The upstream's atomic ref update: a non-force push of `commit` is taken
\* when the branch is absent or fast-forwards.
UpstreamAccepts(commit) ==
    \/ ~IsSome(upstream)
    \/ GitDescendantOrEqual(commit, Unwrap(upstream))

\* ---------------------------------------------------------------- actions

NoAttempt == [state_identifier |-> None]

\* Before the first call of update_namespace_with_push.
NoPush ==
    [name |-> <<>>, force |-> FALSE, current |-> None, future |-> None,
     status |-> "none", after |-> None]

\* Before the first batch is handed to update_namespace_with_push.
NoBatch ==
    [namespace_refs |-> <<>>, refs |-> <<>>, force_refs |-> <<>>,
     result |-> "none", future_refs |-> <<>>, push_status |-> <<>>]

\* Before the first call of attempt_push.
NoAttemptPush ==
    [state_identifier |-> None, push_ok |-> FALSE, rereconciled |-> FALSE,
     new_state_identifier |-> None, success |-> "none"]

\* What an operation leaves in `event`: the operation, the client, how it
\* ended, the tracking ref it started from, and the packs it indexed, in order.
Event(op, c, result, packs) ==
    [op |-> op, client |-> c, result |-> result,
     from |-> IF c \in Clients THEN tracking_ref[c] ELSE None,
     packs |-> packs]

\* Nothing pushed yet: no upstream branch, no ref in any tracking store.
InitProtocol ==
    /\ commits = <<>>
    /\ upstream = None
    /\ published = {}
    /\ config \in {cfg \in [Clients -> [namespace : NamespaceNames]] :
                     cfg[1].namespace = "a"}
    /\ tracking_ref = [c \in Clients |-> None]
    /\ pushing_ref = [c \in Clients |-> None]
    /\ basis_ref = [c \in Clients |-> None]
    /\ pc = [c \in Clients |-> "idle"]
    /\ attempt = [c \in Clients |-> NoAttempt]
    /\ last_tracked = [c \in Clients |-> None]
    /\ event = Event("init", 0, "Ok", <<>>)

\* push() has not entered its loop.
\* The helper processes of one user repository.
Processes == {1, 2}

\* No helper process has started, and no ratchet walk is under way.
InitFlock ==
    /\ stage = [p \in Processes |-> "start"]
    /\ flock = {}
    /\ commands = [p \in Processes |-> 0]
    /\ parents_of = <<>>
    /\ decodes_as = <<>>
    /\ walk_current = 0
    /\ walk_stack = <<>>
    /\ walk_result = "none"

\* No anchor operation was made.
NoAnchorOp == [op |-> "none", refs |-> {}, commits |-> <<>>]

\* The local stores initialize_state_repo maintains, one thread each.
Stores == {"tracking", "all_objects_ever"}

\* An initialize thread that was not spawned.
NoThread == [pc |-> "none", outcome |-> "none", reported |-> FALSE]

\* The local stores are as created: the objects-ever store has no anchor ref,
\* no config file sets gc.auto, and initialize_state_repo was not called.
InitStores ==
    /\ anchor_refs = {}
    /\ ever_commits = <<>>
    /\ anchor_op = NoAnchorOp
    /\ gc_auto = [s \in Stores |-> "unset"]
    /\ maintenance = [s \in Stores |-> NoThread]
    /\ initialized = "none"

\* The command loop of main is not run: no input, nothing written.
InitMain ==
    /\ stdin = <<>>
    /\ printed = <<>>
    /\ ran = <<>>
    /\ exited = "no"

\* No payload was handed to the codec.
NoPayload == [bytes |-> <<>>, key |-> None, chunk_size |-> 0]

\* No decode was made.
NoDecode == [entry |-> "none", want_sha256 |-> None, ok |-> FALSE,
             error |-> "", out |-> <<>>, size |-> 0, blob_ref |-> None]

\* The codec is not used, and no State is serialized.
\* No Namespace is being converted.
NoNamespace == [refs |-> <<>>, pack |-> None, random_name |-> 0]

InitCodec ==
    /\ payload = NoPayload
    /\ encoded = None
    /\ decoded = NoDecode
    /\ reencoded = None
    /\ mem_state = [namespaces |-> <<>>, parents |-> <<>>]
    /\ serialized = None
    /\ deserialized = None
    /\ reserialized = None
    /\ mem_namespace = NoNamespace
    /\ namespace_back = None
    /\ InitMain
    /\ InitFlock

InitLoop ==
    /\ attempts = 0
    /\ returned = "none"
    /\ last_attempt = NoAttemptPush
    /\ push_status = None
    /\ stdout = <<>>

Init ==
    /\ InitStores
    /\ InitProtocol
    /\ InitLoop
    /\ InitCodec
    /\ odb = <<>>
    /\ last_push = NoPush
    /\ last_batch = NoBatch

\* handle_list: reconcile, then print the refs of the namespace.
List(c) ==
    /\ pc[c] = "idle"
    /\ LET r == UpdateBranches(c)
       IN  /\ Reconciled(c, r)
           /\ event' = Event("list", c, r.result, <<>>)
    /\ UNCHANGED <<commits, upstream, published, config, basis_ref,
                   pc, attempt, loop_vars, ff_vars,
                   codec_vars, ser_vars,
                   main_vars,
                   lock_vars,
                   walk_vars,
                   store_vars>>

\* A fetch that writes the basis ref as soon as the walk has returned.
BasisAfterFetch_WritesFirst(basis, commit_id, completed) ==
    IF IsSome(commit_id) THEN commit_id ELSE basis

\* The basis ref when fetch returns: it is written after every fetch_pack
\* and the `git fetch` into the user repository, when the reconcile supplied a
\* commit; `completed` is FALSE when one of those steps returned an error.
BasisAfterFetch(basis, commit_id, completed) ==
    IF completed /\ IsSome(commit_id) THEN commit_id ELSE basis

\* cmd_fetch::fetch: reconcile, collect the packs back to the basis, index
\* them in reverse collection order, then write the basis ref.
Fetch(c) ==
    /\ pc[c] = "idle"
    /\ LET r == UpdateBranches(c)
           walk == MaterializeOrderedPackList(config[c].namespace,
                                              r.state_identifier, r.state,
                                              r.basis_state)
           order == Rev(walk.packs)
       IN  /\ Reconciled(c, r)
           /\ IF r.result # "Ok"
              THEN /\ event' = Event("fetch", c, r.result, <<>>)
                   /\ UNCHANGED basis_ref
              ELSE IF ~walk.ok
              THEN /\ event' = Event("fetch", c, "Error", <<>>)
                   /\ UNCHANGED basis_ref
              ELSE /\ basis_ref' = [basis_ref EXCEPT ![c] =
                                      BasisAfterFetch(@, r.commit_id, TRUE)]
                   /\ event' = Event("fetch", c, "Ok", order)
    /\ UNCHANGED <<commits, upstream, published, config, pc, attempt,
                   loop_vars, ff_vars,
                   codec_vars, ser_vars,
                   main_vars,
                   lock_vars,
                   walk_vars,
                   store_vars>>

\* cmd_fetch::fetch returning an error after the walk: fetch_pack fails on
\* the pack after the first `indexed` ones, or, with all of them indexed, the
\* `git fetch` into the user repository fails.
FetchInterrupted(c) ==
    /\ pc[c] = "idle"
    /\ LET r == UpdateBranches(c)
           walk == MaterializeOrderedPackList(config[c].namespace,
                                              r.state_identifier, r.state,
                                              r.basis_state)
           order == Rev(walk.packs)
       IN  /\ r.result = "Ok"
           /\ walk.ok
           /\ Reconciled(c, r)
           /\ \E indexed \in 0..Len(order) :
                  event' = Event("fetch_interrupted", c, "Error",
                                 SubSeq(order, 1, indexed))
           /\ basis_ref' = [basis_ref EXCEPT ![c] =
                              BasisAfterFetch(@, r.commit_id, FALSE)]
    /\ UNCHANGED <<commits, upstream, published, config, pc, attempt,
                   loop_vars, ff_vars,
                   codec_vars, ser_vars,
                   main_vars,
                   lock_vars,
                   walk_vars,
                   store_vars>>

\* attempt_push up to do_commit: reconcile, build the namespace and the state
\* on the reconciled state, and commit them to the scratch ref on top of the
\* commit that ref holds (anyhow_ref_commit), with the tree create_commit_tree
\* builds on the root tree of the reconciled commit. `size_positive` tells whether
\* the pack subprocess wrote any byte.
PushCommit(c, size_positive) ==
    /\ pc[c] = "idle"
    /\ Len(commits) < MaxCommits
    /\   LET r == UpdateBranches(c)
             n == Len(commits) + 1
             name == config[c].namespace
             namespace == IF name \in DOMAIN r.state.namespaces
                          THEN DecodeNamespace(r.state.namespaces[name])
                          ELSE NewNamespace(n)
             future_namespace == UpdateNamespacePack(namespace, size_positive, n)
             future == UpdateStateWithPush(name, r.state, NamespaceRefOf(n),
                                           r.state_identifier)
         IN  IF r.result # "Ok"
             THEN /\ Reconciled(c, r)
                  /\ event' = Event("push", c, r.result, <<>>)
                  /\ UNCHANGED <<commits, pc, attempt>>
             ELSE /\ tracking_ref' = [tracking_ref EXCEPT ![c] = r.tracking_ref]
                  /\ last_tracked' = [last_tracked EXCEPT ![c] =
                        IF IsSome(r.tracking_ref) THEN r.tracking_ref ELSE @]
                  /\ commits' = Append(commits,
                                       [parent |-> UpdatePushingBranch(pushing_ref[c]),
                                        state |-> future,
                                        namespace |-> future_namespace,
                                        tree |-> CreateCommitTree(
                                            name, RootTree(r.commit_id), future,
                                            future_namespace, StateRefOf(n),
                                            n, n)])
                  /\ pushing_ref' = [pushing_ref EXCEPT ![c] = Some(n)]
                  /\ attempt' = [attempt EXCEPT ![c] =
                                   [state_identifier |-> r.state_identifier]]
                  /\ pc' = [pc EXCEPT ![c] = "committed"]
                  /\ event' = Event("commit", c, "Ok", <<>>)
    /\ UNCHANGED <<upstream, published, config, basis_ref, loop_vars, ff_vars,
                   codec_vars, ser_vars,
                   main_vars,
                   lock_vars,
                   walk_vars,
                   store_vars>>

\* attempt_push from the upstream push on: `git push` of the scratch ref; when
\* it fails, reconcile again and classify the failure. `failed` is a push
\* subprocess that fails for a reason of its own (transport, permissions).
PushUpstream(c) ==
    /\ pc[c] = "committed"
    /\ \E failed \in BOOLEAN :
         IF ~failed /\ UpstreamAccepts(Unwrap(pushing_ref[c]))
         THEN /\ upstream' = pushing_ref[c]
              /\ published' = published \cup {Unwrap(pushing_ref[c])}
              /\ event' = Event("push", c, "Ok", <<>>)
              /\ UNCHANGED <<tracking_ref, pushing_ref, last_tracked>>
         ELSE LET r == UpdateBranches(c)
              IN  /\ Reconciled(c, r)
                  /\ event' = Event("push", c,
                                    IF r.result # "Ok"
                                    THEN r.result
                                    ELSE ClassifyFailedPushForRetry(
                                             attempt[c].state_identifier,
                                             r.state_identifier),
                                    <<>>)
                  /\ UNCHANGED <<upstream, published>>
    /\ pc' = [pc EXCEPT ![c] = "idle"]
    /\ attempt' = [attempt EXCEPT ![c] = NoAttempt]
    /\ UNCHANGED <<commits, config, basis_ref, loop_vars, ff_vars,
                   codec_vars, ser_vars,
                   main_vars,
                   lock_vars,
                   walk_vars,
                   store_vars>>

\* Another writer of the upstream repository deletes the branch or forces it
\* to a commit it pointed to before.
UpstreamRewrite ==
    /\ \E target \in {None} \cup {Some(n) : n \in published} :
         /\ target # upstream
         /\ upstream' = target
    /\ event' = Event("rewrite", 0, "Ok", <<>>)
    /\ UNCHANGED <<commits, published, config, tracking_ref, pushing_ref,
                   basis_ref, pc, attempt, last_tracked, loop_vars, ff_vars,
                   codec_vars, ser_vars,
                   main_vars,
                   lock_vars,
                   walk_vars,
                   store_vars>>

Next ==
    \/ \E c \in Fetchers : List(c)
    \/ \E c \in Fetchers : Fetch(c)
    \/ \E c \in Fetchers : FetchInterrupted(c)
    \/ \E c \in Clients : PushCommit(c, TRUE)
    \/ \E c \in Clients : PushUpstream(c)
    \/ UpstreamRewrite

Spec == Init /\ [][Next]_vars

\* ------------------------------------------- cmd_push.rs, the retry loop

\* `for _ in 0..25`
MaxAttempts == 25

\* The loop bound taken one iteration too far.
PushLoopHasNext_Inclusive(made) == made <= MaxAttempts

\* Does `for _ in 0..25` run its body again after `made` iterations?
PushLoopHasNext(made) == made < MaxAttempts

\* What update_branches can hand to attempt_push: an error, or the state
\* identifier of the reconciled tip (None when the upstream branch is absent).
StateIdentifiers == {None} \cup {Some(StateRefOf(n)) : n \in 1..MaxCommits}

\* attempt_push as push() sees it: Err when the first reconcile fails, Ok when
\* the upstream push succeeds, Err when the second reconcile fails, and the
\* classification of the failed push otherwise.
AttemptPush(reconciled, state_identifier, push_ok, rereconciled, new_state_identifier) ==
    IF ~reconciled
    THEN [NoAttemptPush EXCEPT !.success = "Error"]
    ELSE IF push_ok
    THEN [NoAttemptPush EXCEPT !.state_identifier = state_identifier,
                               !.push_ok = TRUE,
                               !.success = "Ok"]
    ELSE IF ~rereconciled
    THEN [NoAttemptPush EXCEPT !.state_identifier = state_identifier,
                               !.success = "Error"]
    ELSE [state_identifier |-> state_identifier,
          push_ok |-> FALSE,
          rereconciled |-> TRUE,
          new_state_identifier |-> new_state_identifier,
          success |-> ClassifyFailedPushForRetry(state_identifier,
                                                 new_state_identifier)]

\* HashMap<String, V>: the maps from some of the names to values in V.
MapsOver(names, V) == UNION {[D -> V] : D \in SUBSET names}

\* The destinations a push batch can name.
Destinations == {<<"refs", "heads", "main">>, <<"refs", "tags", "v1">>}

\* What update_namespace_with_push can return as push_status for a batch: a
\* decision for each destination the batch names, at least one.
PushStatuses == MapsOver(Destinations, BOOLEAN) \ {<<>>}

\* The orders in which a HashMap can yield the keys in `names`.
IterationOrders(names) ==
    {order \in [1..Cardinality(names) -> names] :
        \A i, j \in 1..Cardinality(names) : i # j => order[i] # order[j]}

\* The empty line.
BlankLine == <<>>

\* println!("ok {}\n", &name) and println!("error {} rejected\n", &name): the
\* format string ends in a newline and println! adds its own, so each call
\* writes the status line and an empty line.
PrintlnStatus(name, status) ==
    IF status
    THEN << <<"ok", name>>, BlankLine >>
    ELSE << <<"error", name, "rejected">>, BlankLine >>

\* The Ok arm of push(): one println! per entry of push_status, in the
\* order the map yields them.
RECURSIVE PrintPushStatus(_, _)
PrintPushStatus(order, status) ==
    IF order = <<>>
    THEN <<>>
    ELSE PrintlnStatus(Head(order), status[Head(order)])
             \o PrintPushStatus(Tail(order), status)

\* A loop that also reports the decisions of an attempt it retries.
PushWrites_OnRetry(success) == success \in {"Ok", "Retry"}

\* Does push() write status lines after an attempt that returned `success`?
PushWrites(success) == success = "Ok"

\* One iteration of the loop of push(): `attempt_push(...)?`, then the match.
PushIteration ==
    /\ returned = "none"
    /\ PushLoopHasNext(attempts)
    /\ \E reconciled \in BOOLEAN, push_ok \in BOOLEAN, rereconciled \in BOOLEAN,
          state_identifier \in StateIdentifiers,
          new_state_identifier \in StateIdentifiers,
          status \in PushStatuses :
         \E order \in IterationOrders(DOMAIN status) :
         LET a == AttemptPush(reconciled, state_identifier, push_ok,
                              rereconciled, new_state_identifier)
         IN  /\ last_attempt' = a
             /\ returned' = IF a.success = "Retry" THEN "none" ELSE a.success
             /\ push_status' = IF a.success = "Ok" THEN Some(status) ELSE None
             /\ stdout' = IF PushWrites(a.success)
                          THEN stdout \o PrintPushStatus(order, status)
                          ELSE stdout
    /\ attempts' = attempts + 1
    /\ UNCHANGED <<protocol_vars, ff_vars,
                   codec_vars, ser_vars,
                   main_vars,
                   lock_vars,
                   walk_vars,
                   store_vars>>

\* The loop of push() is exhausted: "After many tries, unable to push".
PushGivesUp ==
    /\ returned = "none"
    /\ ~PushLoopHasNext(attempts)
    /\ returned' = "Conflict"
    /\ UNCHANGED <<attempts, last_attempt, push_status, stdout,
                   protocol_vars, ff_vars,
                   codec_vars, ser_vars,
                   main_vars,
                   lock_vars,
                   walk_vars,
                   store_vars>>

NextRetry == PushIteration \/ PushGivesUp

\* push() is a sequential loop: it takes its next step whenever it has one.
SpecRetry == Init /\ [][NextRetry]_vars /\ WF_vars(NextRetry)

\* ------------------------------- persistence.rs, the per-ref fast-forward

\* Object ids that may occur in the objects-ever repository or in a ref.
MaxObjects == 3

ObjectIds == 1..MaxObjects

\* What find_object yields: a commit and its parents, or an object of another
\* kind.
ObjectRecords ==
    {[kind |-> "blob", parents |-> {}]}
        \cup {[kind |-> "commit", parents |-> P] : P \in SUBSET ObjectIds}

\* The repositories git can produce: the parents of a commit are commits that
\* the repository holds, and were created before it.
Repositories ==
    {w \in UNION {[D -> ObjectRecords] : D \in SUBSET ObjectIds} :
        \A o \in DOMAIN w : \A p \in w[o].parents :
            p < o /\ p \in DOMAIN w /\ w[p].kind = "commit"}

\* Ref names, as their components: refs/heads/main and refs/tags/v1.
RefNames == {<<"refs", "heads", "main">>, <<"refs", "tags", "v1">>}

\* Names a symbolic ref may point to.
SymbolicTargets == {<<"refs", "heads", "main">>, <<"refs", "heads", "dev">>}

\* "refs/tags/"
TagPrefix == <<"refs", "tags">>

\* str::starts_with, on components.
StartsWith(name, prefix) ==
    /\ Len(name) > Len(prefix)
    /\ SubSeq(name, 1, Len(prefix)) = prefix

\* Ref::Direct(oid)
Direct(oid) == [type |-> "Direct", name |-> <<>>, oid |-> Some(oid)]

\* Ref::Symbolic(name, oid), oid being the Option captured at the time.
Symbolic(name, oid) == [type |-> "Symbolic", name |-> name, oid |-> oid]

\* The Ref values over a set of object ids.
RefsOver(ids) ==
    {Direct(o) : o \in ids}
        \cup {Symbolic(n, t) : n \in SymbolicTargets,
                               t \in {None} \cup {Some(o) : o \in ids}}

\* Ref::shallow_equal
ShallowEqual(a, b) ==
    IF a.type = "Direct" /\ b.type = "Direct"
    THEN a.oid = b.oid
    ELSE IF a.type = "Symbolic" /\ b.type = "Symbolic"
    THEN a.name = b.name
    ELSE FALSE

\* A set as a vector, smallest element first.
RECURSIVE SetToSeq(_)
SetToSeq(S) ==
    IF S = {}
    THEN <<>>
    ELSE LET m == CHOOSE x \in S : \A y \in S : x <= y
         IN  <<m>> \o SetToSeq(S \ {m})

\* The loop of graph_descendant_of: pop an id and insert its parents into the
\* graph; a parent seen for the first time is `old` (found) or is pushed.
RECURSIVE GraphWalk(_, _, _)
GraphWalk(stack, graph, old) ==
    IF stack = <<>>
    THEN FALSE
    ELSE LET id == stack[Len(stack)]
             rest == SubSeq(stack, 1, Len(stack) - 1)
             fresh == odb[id].parents \ graph
         IN  IF old \in fresh
             THEN TRUE
             ELSE GraphWalk(rest \o SetToSeq(fresh), graph \cup fresh, old)

\* graph_descendant_of looking at the parents of `new` and no further.
GraphDescendantOf_ParentsOnly(new, old) ==
    new = old \/ old \in odb[new].parents

\* graph_descendant_of(graph, new, old)
GraphDescendantOf(new, old) ==
    IF new = old THEN TRUE ELSE GraphWalk(<<new>>, {}, old)

\* can_fast_forward without the refs/tags/ rule.
CanFastForward_NoTagRule(name, current, future) ==
    IF current = future
    THEN "true"
    ELSE IF current.type = "Direct" /\ future.type = "Direct"
    THEN LET old == Unwrap(current.oid)
             new == Unwrap(future.oid)
         IN  IF old \notin DOMAIN odb \/ new \notin DOMAIN odb
             THEN "Err"
             ELSE IF odb[old].kind # "commit" \/ odb[new].kind # "commit"
             THEN "false"
             ELSE IF ~GraphDescendantOf(new, old)
             THEN "false"
             ELSE "true"
    ELSE "false"

\* can_fast_forward whose last match arm lets symbolic refs through.
CanFastForward_SymbolicAllowed(name, current, future) ==
    IF current = future
    THEN "true"
    ELSE IF current.type = "Direct" /\ future.type = "Direct"
    THEN LET old == Unwrap(current.oid)
             new == Unwrap(future.oid)
         IN  IF StartsWith(name, TagPrefix)
             THEN "false"
             ELSE IF old \notin DOMAIN odb \/ new \notin DOMAIN odb
             THEN "Err"
             ELSE IF odb[old].kind # "commit" \/ odb[new].kind # "commit"
             THEN "false"
             ELSE IF ~GraphDescendantOf(new, old)
             THEN "false"
             ELSE "true"
    ELSE "true"

\* can_fast_forward(all_objects_ever_repo, graph, name, current, future):
\* "true" and "false" are Ok(true) and Ok(false), "Err" is the error of a
\* find_object that does not find the object.
CanFastForward(name, current, future) ==
    IF current = future
    THEN "true"
    ELSE IF current.type = "Direct" /\ future.type = "Direct"
    THEN LET old == Unwrap(current.oid)
             new == Unwrap(future.oid)
         IN  IF StartsWith(name, TagPrefix)
             THEN "false"
             ELSE IF old \notin DOMAIN odb
             THEN "Err"
             ELSE IF new \notin DOMAIN odb
             THEN "Err"
             ELSE IF odb[old].kind # "commit" \/ odb[new].kind # "commit"
             THEN "false"
             ELSE IF ~GraphDescendantOf(new, old)
             THEN "false"
             ELSE "true"
    ELSE "false"

\* The loops of update_namespace_with_push for a push of one name: `current`
\* is namespace.refs.get(name); the spec is in `refs` (future is Some) or in
\* `force_refs` (future None deletes). `after` is future.refs.get(name), and
\* with status "Err" the function returns the error and no namespace.
UpdateNamespaceWithPush(name, current, force, future) ==
    LET ff == IF IsSome(current)
              THEN CanFastForward(name, Unwrap(current), Unwrap(future))
              ELSE "true"
    IN  [name |-> name, force |-> force, current |-> current, future |-> future,
         status |-> IF force THEN "true" ELSE ff,
         after |-> IF force \/ ff = "true" THEN future ELSE current]

\* The refs a push can send from the user repository: attempt_push has pushed
\* them to the objects-ever repository, which therefore holds their objects.
Pushable == RefsOver(DOMAIN odb)

InitFF ==
    /\ InitStores
    /\ InitProtocol
    /\ config[2].namespace = "a"
    /\ InitLoop
    /\ InitCodec
    /\ odb \in Repositories
    /\ last_push = NoPush
    /\ last_batch = NoBatch

\* A non-force push of one name.
PushRef ==
    /\ last_push.status = "none"
    /\ \E name \in RefNames, future \in Pushable,
          current \in {None} \cup {Some(r) : r \in RefsOver(ObjectIds)} :
         last_push' = UpdateNamespaceWithPush(name, current, FALSE, Some(future))
    /\ UNCHANGED <<odb, last_batch, protocol_vars, loop_vars,
                   codec_vars, ser_vars,
                   main_vars,
                   lock_vars,
                   walk_vars,
                   store_vars>>

\* A force push of one name; the empty source deletes the name.
ForcePushRef ==
    /\ last_push.status = "none"
    /\ \E name \in RefNames,
          future \in {None} \cup {Some(r) : r \in Pushable},
          current \in {None} \cup {Some(r) : r \in RefsOver(ObjectIds)} :
         last_push' = UpdateNamespaceWithPush(name, current, TRUE, future)
    /\ UNCHANGED <<odb, last_batch, protocol_vars, loop_vars,
                   codec_vars, ser_vars,
                   main_vars,
                   lock_vars,
                   walk_vars,
                   store_vars>>

NextFF == PushRef \/ ForcePushRef

SpecFF == InitFF /\ [][NextFF]_vars

\* ------------------------- persistence.rs, a batch of refs and force_refs

\* update_namespace_with_push running the force_refs loop before the refs
\* loop, so that a non-force spec has the last word on a name in both.
UpdateNamespaceRefs_ForceFirst(namespace_refs, refs, force_refs) ==
    LET ff == [name \in DOMAIN refs |->
                  IF name \in DOMAIN namespace_refs
                  THEN CanFastForward(name, namespace_refs[name], refs[name])
                  ELSE "true"]
        admitted == {name \in DOMAIN refs : ff[name] = "true"}
        inserted == {name \in DOMAIN force_refs : IsSome(force_refs[name])}
        removed == DOMAIN force_refs \ inserted
    IN  IF \E name \in DOMAIN refs : ff[name] = "Err"
        THEN [NoBatch EXCEPT !.namespace_refs = namespace_refs,
                             !.refs = refs,
                             !.force_refs = force_refs,
                             !.result = "Err"]
        ELSE [namespace_refs |-> namespace_refs,
              refs |-> refs,
              force_refs |-> force_refs,
              result |-> "Ok",
              future_refs |->
                  [name \in ((DOMAIN namespace_refs \ removed) \cup inserted)
                                \cup admitted |->
                      IF name \in admitted
                      THEN refs[name]
                      ELSE IF name \in inserted
                      THEN Unwrap(force_refs[name])
                      ELSE namespace_refs[name]],
              push_status |->
                  [name \in DOMAIN refs \cup DOMAIN force_refs |->
                      IF name \in DOMAIN refs
                      THEN ff[name] = "true"
                      ELSE TRUE]]

\* update_namespace_with_push failing the batch at a rejected spec.
UpdateNamespaceRefs_RejectionFatal(namespace_refs, refs, force_refs) ==
    LET ff == [name \in DOMAIN refs |->
                  IF name \in DOMAIN namespace_refs
                  THEN CanFastForward(name, namespace_refs[name], refs[name])
                  ELSE "true"]
        inserted == {name \in DOMAIN force_refs : IsSome(force_refs[name])}
        removed == DOMAIN force_refs \ inserted
    IN  IF \E name \in DOMAIN refs : ff[name] # "true"
        THEN [NoBatch EXCEPT !.namespace_refs = namespace_refs,
                             !.refs = refs,
                             !.force_refs = force_refs,
                             !.result = "Err"]
        ELSE [namespace_refs |-> namespace_refs,
              refs |-> refs,
              force_refs |-> force_refs,
              result |-> "Ok",
              future_refs |->
                  [name \in ((DOMAIN namespace_refs \cup DOMAIN refs) \ removed)
                                \cup inserted |->
                      IF name \in inserted
                      THEN Unwrap(force_refs[name])
                      ELSE IF name \in DOMAIN refs
                      THEN refs[name]
                      ELSE namespace_refs[name]],
              push_status |->
                  [name \in DOMAIN refs \cup DOMAIN force_refs |-> TRUE]]

\* The two loops of update_namespace_with_push over a batch. `refs` maps
\* names to Refs and `force_refs` maps names to Options of Refs. The first
\* loop takes its decisions against `namespace`, not against `future`, and
\* returns the error of the first can_fast_forward that fails; the second
\* loop runs after it and overwrites its entries.
UpdateNamespaceRefs(namespace_refs, refs, force_refs) ==
    LET ff == [name \in DOMAIN refs |->
                  IF name \in DOMAIN namespace_refs
                  THEN CanFastForward(name, namespace_refs[name], refs[name])
                  ELSE "true"]
        admitted == {name \in DOMAIN refs : ff[name] = "true"}
        inserted == {name \in DOMAIN force_refs : IsSome(force_refs[name])}
        removed == DOMAIN force_refs \ inserted
    IN  IF \E name \in DOMAIN refs : ff[name] = "Err"
        THEN [NoBatch EXCEPT !.namespace_refs = namespace_refs,
                             !.refs = refs,
                             !.force_refs = force_refs,
                             !.result = "Err"]
        ELSE [namespace_refs |-> namespace_refs,
              refs |-> refs,
              force_refs |-> force_refs,
              result |-> "Ok",
              future_refs |->
                  [name \in ((DOMAIN namespace_refs \cup admitted) \ removed)
                                \cup inserted |->
                      IF name \in inserted
                      THEN Unwrap(force_refs[name])
                      ELSE IF name \in admitted
                      THEN refs[name]
                      ELSE namespace_refs[name]],
              push_status |->
                  [name \in DOMAIN refs \cup DOMAIN force_refs |->
                      name \in DOMAIN force_refs \/ ff[name] = "true"]]

\* A batch of direct refs: non-force specs for any of the names and at most
\* one force spec, against a namespace that holds direct refs.
PushBatch ==
    /\ last_batch.result = "none"
    /\ \E namespace_refs \in MapsOver(RefNames, {Direct(o) : o \in ObjectIds}),
          refs \in MapsOver(RefNames, {Direct(o) : o \in DOMAIN odb}),
          force_refs \in MapsOver(RefNames,
                                  {None} \cup {Some(Direct(o)) : o \in DOMAIN odb}) :
         /\ Cardinality(DOMAIN force_refs) <= 1
         /\ DOMAIN refs \cup DOMAIN force_refs # {}
         /\ last_batch' = UpdateNamespaceRefs(namespace_refs, refs, force_refs)
    /\ UNCHANGED <<odb, last_push, protocol_vars, loop_vars,
                   codec_vars, ser_vars,
                   main_vars,
                   lock_vars,
                   walk_vars,
                   store_vars>>

NextBatch == PushBatch

SpecBatch == InitFF /\ [][NextBatch]_vars

\* ------------------------------------------------------ the inner-hash DAG

\* The inner hashes named by the parents of the state with inner hash h.
InnerParents(h) ==
    {commits[h].state.parents[i].sha256 : i \in 1..Len(commits[h].state.parents)}

RECURSIVE InnerClosure(_, _)
InnerClosure(hashes, k) ==
    IF k = 0
    THEN hashes
    ELSE InnerClosure(hashes \cup UNION {InnerParents(h) : h \in hashes}, k - 1)

\* Is c the state f, or reachable from f by parent links (any number)?
InnerDescendantOrEqual(f, c) == c \in InnerClosure({f}, Len(commits))

\* The step just taken ran update_branches in the tracking store of c.
ReconcileStep(c) ==
    /\ event'.client = c
    /\ event'.op \in {"list", "fetch", "commit", "push"}
    /\ ~(event'.op = "push" /\ event'.result = "Ok")

\* ---------------------------------------------------------------- claims

\* C1: in a reconcile where the tracking state C and the candidate F are both
\* present, the tracking ref is set to F's commit if and only if C is F or is
\* reachable from F by parent links of the inner-hash DAG; in every other case
\* the reconcile ends in RatchetError.
C1_RatchetAdmitsExactlyDescendants ==
    [][\A c \in Clients :
        (ReconcileStep(c) /\ IsSome(tracking_ref[c]) /\ IsSome(upstream)) =>
            IF InnerDescendantOrEqual(Unwrap(upstream), Unwrap(tracking_ref[c]))
            THEN /\ event'.result # "RatchetError"
                 /\ tracking_ref'[c] = upstream
            ELSE /\ event'.result = "RatchetError"
                 /\ tracking_ref'[c] # upstream]_vars

\* A list has advanced the tracking ref to a state of which the state it
\* started from is a parent of a parent, not a parent.
C1_Witness ==
    /\ event.op = "list"
    /\ event.result = "Ok"
    /\ IsSome(event.from)
    /\ IsSome(tracking_ref[event.client])
    /\ tracking_ref[event.client] = upstream
    /\ Unwrap(event.from) # Unwrap(upstream)
    /\ Unwrap(event.from) \notin InnerParents(Unwrap(upstream))
    /\ InnerDescendantOrEqual(Unwrap(upstream), Unwrap(event.from))

\* C2 as stated: every commit the tracking ref has pointed to is an ancestor
\* of, or equal to, the commit it is set to at any later time.
C2_Original ==
    [][\A c \in Clients :
        (IsSome(last_tracked[c]) /\ IsSome(tracking_ref'[c])) =>
            InnerDescendantOrEqual(Unwrap(tracking_ref'[c]),
                                   Unwrap(last_tracked[c]))]_vars

\* C2 amended: a step that finds the tracking ref present and leaves it
\* present leaves it at a descendant of, or at, the state it pointed to; so
\* the ref only moves forward for as long as it is not deleted.
C2_TrackingMovesForwardWhilePresent ==
    [][\A c \in Clients :
        (IsSome(tracking_ref[c]) /\ IsSome(tracking_ref'[c])) =>
            InnerDescendantOrEqual(Unwrap(tracking_ref'[c]),
                                   Unwrap(tracking_ref[c]))]_vars

\* A reconcile has moved a present tracking ref to another state.
C2_Witness ==
    /\ event.client \in Clients
    /\ event.op \in {"list", "fetch"}
    /\ IsSome(event.from)
    /\ IsSome(tracking_ref[event.client])
    /\ event.from # tracking_ref[event.client]

\* C3: a reconcile that ends in RatchetError leaves the tracking ref where it
\* was, and a fetch that ends so indexes no pack and leaves the basis ref.
C3_RatchetErrorChangesNothing ==
    [][\A c \in Clients :
        (ReconcileStep(c) /\ event'.result = "RatchetError") =>
            /\ tracking_ref'[c] = tracking_ref[c]
            /\ IsSome(tracking_ref[c])
            /\ event'.packs = <<>>
            /\ basis_ref'[c] = basis_ref[c]]_vars

\* A fetch has ended in RatchetError in a store that has a basis and whose
\* namespace has packs upstream.
C3_Witness ==
    /\ event.op = "fetch"
    /\ event.result = "RatchetError"
    /\ IsSome(basis_ref[event.client])
    /\ IsSome(upstream)
    /\ basis_ref[event.client] # upstream
    /\ config[event.client].namespace
           \in DOMAIN commits[Unwrap(upstream)].state.namespaces

\* The client whose configured namespace the state of commit n rewrote.
WroteCommit(c, n) ==
    /\ config[c].namespace \in DOMAIN commits[n].state.namespaces
    /\ commits[n].state.namespaces[config[c].namespace] = NamespaceRefOf(n)

\* C4: when a process has committed on a tip and the upstream branch has since
\* taken another commit built on that same tip, the process's upstream push is
\* not accepted (so of the two racing pushes at most one is), its re-reconcile
\* yields a state identifier other than the one the attempt began with, and
\* the attempt is classified Retry.
C4_RaceLoserRetries ==
    [][\A d \in Clients :
        (/\ pc[d] = "committed"
         /\ pc'[d] = "idle"
         /\ IsSome(upstream)
         /\ upstream # pushing_ref[d]
         /\ commits[Unwrap(upstream)].parent
                = commits[Unwrap(pushing_ref[d])].parent) =>
            /\ upstream' = upstream
            /\ event'.op = "push"
            /\ event'.client = d
            /\ event'.result = "Retry"
            /\ ResolveStateRef(tracking_ref'[d]) # attempt[d].state_identifier]_vars

\* Two processes with different namespaces committed on the same tip; the
\* commit of one is the upstream tip and the push of the other has just been
\* classified Retry, its commit left unpublished.
C4_Witness ==
    /\ event.op = "push"
    /\ event.result = "Retry"
    /\ IsSome(upstream)
    /\ \E d \in Clients, e \in Clients, n \in 1..Len(commits) :
         /\ d = event.client
         /\ e # d
         /\ config[e].namespace # config[d].namespace
         /\ WroteCommit(e, Unwrap(upstream))
         /\ ~WroteCommit(d, Unwrap(upstream))
         /\ WroteCommit(d, n)
         /\ n \notin published
         /\ n # Unwrap(upstream)
         /\ commits[n].parent = commits[Unwrap(upstream)].parent
         /\ IsSome(commits[n].parent)

\* C5: push() returns, and makes at most 25 calls of attempt_push: it returns
\* Ok with the first call whose upstream push succeeds, an error with the first
\* call that fails otherwise than by Retry, and the conflict error after 25
\* calls that all ended in Retry; once it returned, no call is made.
C5_PushLoopBounded ==
    /\ <>(returned # "none")
    /\ [](/\ attempts <= 25
          /\ (returned = "Ok") <=> (last_attempt.success = "Ok")
          /\ (returned = "Error") <=> (last_attempt.success = "Error")
          /\ (returned = "Conflict") =>
                 (attempts = 25 /\ last_attempt.success = "Retry")
          /\ (returned = "none") =>
                 (attempts = 0 \/ last_attempt.success = "Retry"))
    /\ [][returned # "none" => attempts' = attempts]_vars

\* push() has given up after 25 calls of attempt_push.
C5_Witness ==
    /\ returned = "Conflict"
    /\ attempts = 25
    /\ last_attempt.success = "Retry"

\* The last call of attempt_push had its upstream push fail and reconciled again.
FailedPushClassified ==
    /\ ~last_attempt.push_ok
    /\ last_attempt.rereconciled

\* C6: after a failed upstream push the attempt is Retry exactly when the
\* identifier of the second reconcile differs from that of the first, None
\* being a value like any other; when they are equal push() returns the error
\* and calls attempt_push no more.
C6_RetryIffIdentifierChanged ==
    /\ [](FailedPushClassified =>
            /\ (last_attempt.success = "Retry")
                  <=> (last_attempt.new_state_identifier
                           # last_attempt.state_identifier)
            /\ (last_attempt.new_state_identifier = last_attempt.state_identifier)
                  => returned = "Error")
    /\ [][(FailedPushClassified /\ last_attempt.success = "Error")
              => attempts' = attempts]_vars

\* After earlier retries, a failed push found the upstream branch absent
\* before and after, and push() returned the error.
C6_Witness ==
    /\ FailedPushClassified
    /\ attempts > 1
    /\ last_attempt.state_identifier = None
    /\ last_attempt.new_state_identifier = None
    /\ returned = "Error"

\* ------------------------------------------- the backend commit DAG of odb

RECURSIVE ObjectClosure(_, _)
ObjectClosure(ids, k) ==
    IF k = 0
    THEN ids
    ELSE ObjectClosure(ids \cup UNION {odb[o].parents : o \in ids}, k - 1)

\* Is `new` the commit `old` or a descendant of it?
DescendantOrEqual(new, old) == old \in ObjectClosure({new}, MaxObjects)

IsCommit(o) == o \in DOMAIN odb /\ odb[o].kind = "commit"

\* A non-force push of a name that the namespace holds a value for.
NonForceUpdate ==
    /\ last_push.status # "none"
    /\ ~last_push.force
    /\ IsSome(last_push.current)

\* The same, both values being Direct.
DirectUpdate ==
    /\ NonForceUpdate
    /\ Unwrap(last_push.current).type = "Direct"
    /\ Unwrap(last_push.future).type = "Direct"

OldOid == Unwrap(Unwrap(last_push.current).oid)

NewOid == Unwrap(Unwrap(last_push.future).oid)

\* C7: a non-force push of a name outside refs/tags/, from a Direct commit to
\* a Direct commit, is admitted (status true, the name set to future) if and
\* only if future is current or a descendant of it in the commit DAG;
\* otherwise the name keeps its value with status false.
C7_CommitsAdmittedIffDescendant ==
    (/\ DirectUpdate
     /\ ~StartsWith(last_push.name, TagPrefix)
     /\ IsCommit(OldOid)
     /\ IsCommit(NewOid)) =>
        IF DescendantOrEqual(NewOid, OldOid)
        THEN last_push.status = "true" /\ last_push.after = last_push.future
        ELSE last_push.status = "false" /\ last_push.after = last_push.current

\* A branch was moved to a commit that has the old one among its ancestors
\* but not among its parents.
C7_Witness ==
    /\ DirectUpdate
    /\ ~StartsWith(last_push.name, TagPrefix)
    /\ IsCommit(OldOid)
    /\ IsCommit(NewOid)
    /\ OldOid # NewOid
    /\ OldOid \notin odb[NewOid].parents
    /\ last_push.status = "true"
    /\ last_push.after = last_push.future

\* C8 as stated: a non-force push of a name under refs/tags/ is rejected
\* whenever the namespace holds a value for the name.
C8_Original ==
    (NonForceUpdate /\ StartsWith(last_push.name, TagPrefix)) =>
        last_push.status = "false"

\* C8 amended: a non-force push of a name under refs/tags/ is rejected
\* whenever the namespace holds another value for the name than the one
\* pushed, and the name keeps its value; a force push of the name is accepted
\* and sets it.
C8_TagMoveNeedsForce ==
    (/\ last_push.status # "none"
     /\ StartsWith(last_push.name, TagPrefix)
     /\ IsSome(last_push.current)) =>
        /\ (~last_push.force /\ last_push.current # last_push.future) =>
              (last_push.status = "false" /\ last_push.after = last_push.current)
        /\ last_push.force =>
              (last_push.status = "true" /\ last_push.after = last_push.future)

\* A tag that holds a commit was pushed, without force, a descendant of that
\* commit, and was rejected.
C8_Witness ==
    /\ DirectUpdate
    /\ StartsWith(last_push.name, TagPrefix)
    /\ IsCommit(OldOid)
    /\ IsCommit(NewOid)
    /\ OldOid # NewOid
    /\ DescendantOrEqual(NewOid, OldOid)
    /\ last_push.status = "false"
    /\ last_push.after = last_push.current

\* C9: a non-force push whose current and future values are shallow-equal is
\* admitted.
C9_ShallowEqualAdmitted ==
    (/\ NonForceUpdate
     /\ ShallowEqual(Unwrap(last_push.current), Unwrap(last_push.future))) =>
        last_push.status = "true"

\* The object is in the repository and is no commit.
IsNonCommit(o) == o \in DOMAIN odb /\ odb[o].kind # "commit"

\* C10 as stated: a non-force push of a value other than the current one ends
\* with status false, not with an error, when either value is Symbolic and
\* when both are Direct and either object is no commit.
C10_Original ==
    (/\ NonForceUpdate
     /\ last_push.current # last_push.future
     /\ \/ Unwrap(last_push.current).type = "Symbolic"
        \/ Unwrap(last_push.future).type = "Symbolic"
        \/ DirectUpdate /\ (IsNonCommit(OldOid) \/ IsNonCommit(NewOid))) =>
        last_push.status = "false"

\* C10 amended: the same, for Direct values, when the objects-ever repository
\* holds both objects; the name keeps its value.
C10_SymbolicOrNonCommitRejected ==
    (/\ NonForceUpdate
     /\ last_push.current # last_push.future
     /\ \/ Unwrap(last_push.current).type = "Symbolic"
        \/ Unwrap(last_push.future).type = "Symbolic"
        \/ /\ DirectUpdate
           /\ OldOid \in DOMAIN odb
           /\ NewOid \in DOMAIN odb
           /\ (IsNonCommit(OldOid) \/ IsNonCommit(NewOid))) =>
        /\ last_push.status = "false"
        /\ last_push.after = last_push.current

\* A branch that holds a commit was pushed an object that is no commit, and
\* the push was rejected.
C10_Witness ==
    /\ DirectUpdate
    /\ ~StartsWith(last_push.name, TagPrefix)
    /\ IsCommit(OldOid)
    /\ IsNonCommit(NewOid)
    /\ last_push.status = "false"

\* ------------------------------------------------- batches of push specs

BatchObjectsFound ==
    \A name \in DOMAIN last_batch.refs \cap DOMAIN last_batch.namespace_refs :
        Unwrap(last_batch.namespace_refs[name].oid) \in DOMAIN odb

\* The names of the batch that only a non-force spec names.
NonForceNames == DOMAIN last_batch.refs \ DOMAIN last_batch.force_refs

OnlyPushes ==
    /\ IsSome(upstream)
    /\ published = {n \in 1..Len(commits) :
                       GitDescendantOrEqual(Unwrap(upstream), n)}

\* The elements of a sequence.
Range(seq) == {seq[i] : i \in 1..Len(seq)}

\* C13: when two different namespaces share the upstream branch and its
\* history is a sequence of accepted pushes, a fetch without basis ref of a
\* namespace that was pushed into succeeds and collects every pack pushed
\* into that namespace.
C13_FetchAcrossNamespaces ==
    [][\A c \in Fetchers :
        (/\ event'.op = "fetch"
         /\ event'.client = c
         /\ ~IsSome(basis_ref[c])
         /\ OnlyPushes
         /\ config[1].namespace # config[2].namespace
         /\ \E n \in published : WroteCommit(c, n)) =>
            /\ event'.result = "Ok"
            /\ \A n \in published :
                   WroteCommit(c, n) => PackRefOf(n) \in Range(event'.packs)]_vars

\* The pack (if any) that the state with inner hash h holds for a namespace.
PackAt(namespace_name, h) ==
    DecodeNamespace(commits[h].state.namespaces[namespace_name]).pack

\* The packs of the states from `state_identifier` back to the basis
\* (excluded), every state's pack after the packs of its ancestors.
RECURSIVE AncestorsFirst(_, _, _)
AncestorsFirst(namespace_name, state_identifier, basis) ==
    IF \/ ~IsSome(state_identifier)
       \/ IsSome(basis) /\ Unwrap(basis) = Unwrap(state_identifier)
    THEN <<>>
    ELSE LET h == Unwrap(state_identifier).sha256
         IN  AncestorsFirst(namespace_name, commits[h].state.parents, basis)
                 \o PackAt(namespace_name, h)

\* C14: a successful fetch indexes the packs of the walked states ancestors
\* first: the pack of a state comes after the packs of every state it descends
\* from, back to the basis.
C14_AncestorPacksFirst ==
    [][\A c \in Fetchers :
        (/\ event'.op = "fetch"
         /\ event'.client = c
         /\ event'.result = "Ok") =>
            LET r == UpdateBranches(c)
            IN  event'.packs = AncestorsFirst(config[c].namespace,
                                              r.state_identifier, r.basis_state)]_vars

\* A fetch indexed two different packs, the pack of commit 1 before that of a
\* commit built on it.
C14_Witness ==
    /\ event.op = "fetch"
    /\ event.result = "Ok"
    /\ Len(event.packs) >= 2
    /\ event.packs[1] = PackRefOf(1)
    /\ event.packs[2] # PackRefOf(1)
    /\ InnerDescendantOrEqual(event.packs[2].random_name, 1)

\* ------------------------------------------------- the status lines of push

\* The status line push() writes for a destination with a decision.
StatusLine(name, status) ==
    IF status THEN <<"ok", name>> ELSE <<"error", name, "rejected">>

\* The positions of stdout that hold the status line of a destination.
StatusLinesOf(name) ==
    {i \in 1..Len(stdout) : stdout[i] \in {StatusLine(name, TRUE),
                                           StatusLine(name, FALSE)}}

\* C15: when push() has returned Ok, stdout holds one status line for each
\* destination of the batch, stating its decision, these lines come first,
\* and exactly one blank line follows them.
C15_StatusLinesThenOneBlank ==
    returned = "Ok" =>
        LET status == Unwrap(push_status)
            n == Cardinality(DOMAIN status)
        IN  /\ Len(stdout) = n + 1
            /\ stdout[n + 1] = BlankLine
            /\ \A name \in DOMAIN status :
                   \E i \in 1..n : stdout[i] = StatusLine(name, status[name])

\* push() has written something, every line of it after the upstream push of
\* its last attempt succeeded, and for each destination of that attempt
\* exactly one status line, stating that attempt's decision, and no status
\* line for any other destination.
WrittenOnceBySuccess ==
    /\ returned = "Ok"
    /\ last_attempt.push_ok
    /\ IsSome(push_status)
    /\ \A name \in Destinations :
           IF name \in DOMAIN Unwrap(push_status)
           THEN \E i \in 1..Len(stdout) :
                    /\ StatusLinesOf(name) = {i}
                    /\ stdout[i] = StatusLine(name, Unwrap(push_status)[name])
           ELSE StatusLinesOf(name) = {}

\* C16: push() writes to stdout only in the iteration whose attempt pushed
\* upstream successfully; iterations that retry or fail write nothing; and
\* whatever stdout holds was written once, by that attempt, with its decisions.
C16_StatusOnlyAfterSuccess ==
    /\ [](stdout # <<>> => WrittenOnceBySuccess)
    /\ [][stdout' # stdout =>
             /\ stdout = <<>>
             /\ last_attempt'.push_ok
             /\ last_attempt'.success = "Ok"]_vars
    /\ [][last_attempt'.success \in {"Retry", "Error"} => stdout' = stdout]_vars

\* A batch with two destinations, one admitted and one rejected, succeeded on
\* its third attempt and its status lines are on stdout.
C16_Witness ==
    /\ returned = "Ok"
    /\ attempts = 3
    /\ DOMAIN Unwrap(push_status) = Destinations
    /\ \E admitted, rejected \in Destinations :
           /\ Unwrap(push_status)[admitted]
           /\ ~Unwrap(push_status)[rejected]
    /\ Len(stdout) >= 2

\* ------------------------------------------------------ encoding.rs: codec

\* The longest payload handed to encode.
MaxLen == 11

\* The smallest max_object_size the configuration accepts.
MinChunkSize == 10

\* The chunk sizes handed to encode.
ChunkSizes == {MinChunkSize, MinChunkSize + 1}

\* The values of a byte.
Bytes == {0, 1}

\* The byte sequences of at most n bytes.
BytesUpTo(n) == UNION {[1..k -> Bytes] : k \in 0..n}

\* The symmetric keys, and the nonces the encrypting writer can draw.
SymmetricKeys == {1}
Nonces == {0, 1}

\* sha2::Sha256 of a byte sequence: a digest that names its input.
Sha256(bytes) == [sha256_of |-> bytes]

\* The id write_stream gives a blob: a git hash that names its content.
BlobOid(bytes) == [blob |-> bytes]

\* repo.find_blob(oid).take_data(): the content stored under a blob id.
FindBlob(oid) == oid.blob

Min(a, b) == IF a <= b THEN a ELSE b

\* A splitter that cuts at the smallest chunk size, whatever it was given.
SplitWriterNew_FixedChunk(chunk_size) ==
    [fd |-> <<>>, chunk_size |-> MinChunkSize, current |-> None,
     oids |-> <<>>, disk_buf_bytes |-> 0]

\* SplitWriter::new
SplitWriterNew(chunk_size) ==
    [fd |-> <<>>, chunk_size |-> chunk_size, current |-> None,
     oids |-> <<>>, disk_buf_bytes |-> 0]

\* SplitWriter::write_one: the scratch file becomes one blob and is emptied.
SplitWriteOne(w) ==
    [w EXCEPT !.oids = Append(@, BlobOid(SubSeq(w.fd, 1, w.disk_buf_bytes))),
              !.fd = <<>>,
              !.disk_buf_bytes = 0]

\* A write that takes the whole buffer, whatever room the chunk has left.
SplitWrite_TakesAll(w, buf) ==
    LET written == [w EXCEPT !.current = None,
                             !.fd = @ \o buf,
                             !.disk_buf_bytes = @ + Len(buf)]
    IN  [writer |-> SplitWriteOne(written), n |-> Len(buf)]

\* SplitWriter::write: takes at most what the current chunk still has room
\* for, and flushes the chunk when it is full. Returns the writer and n.
SplitWrite(w, buf) ==
    LET remaining0 == IF IsSome(w.current) THEN Unwrap(w.current) ELSE w.chunk_size
        n == Min(remaining0, Len(buf))
        remaining == remaining0 - n
        written == [w EXCEPT !.current = None,
                             !.fd = @ \o SubSeq(buf, 1, n),
                             !.disk_buf_bytes = @ + n]
    IN  [writer |-> IF remaining > 0
                    THEN [written EXCEPT !.current = Some(remaining)]
                    ELSE SplitWriteOne(written),
         n |-> n]

\* Write::write_all over SplitWriter::write.
RECURSIVE SplitWriteAll(_, _)
SplitWriteAll(w, buf) ==
    IF buf = <<>>
    THEN w
    ELSE LET r == SplitWrite(w, buf)
         IN  SplitWriteAll(r.writer, SubSeq(buf, r.n + 1, Len(buf)))

\* A commit that returns the blobs flushed so far and drops the scratch file.
SplitCommit_NoFinalBlob(w) == w.oids

\* SplitWriter::commit: the scratch file is flushed as the final blob.
SplitCommit(w) == SplitWriteOne(w).oids

\* copy_and_hash over the buffers fill_buf yields, one after the other: it
\* stops at the first empty buffer, hashes and writes what came before it.
RECURSIVE CopyAndHashWalk(_, _)
CopyAndHashWalk(bufs, copied) ==
    IF bufs = <<>> \/ Head(bufs) = <<>>
    THEN [sha256 |-> Sha256(copied), bytes_copied |-> Len(copied),
          copied |-> copied]
    ELSE CopyAndHashWalk(Tail(bufs), copied \o Head(bufs))

CopyAndHash(bufs) == CopyAndHashWalk(bufs, <<>>)

\* EncryptingWriter over IoRecordWriter: the framed ciphertext of a plaintext
\* under a key and the nonce the writer drew.
Seal(key, nonce, plain) ==
    <<nonce>> \o [i \in 1..Len(plain) |-> (plain[i] + key + nonce) % 2]

\* DecryptingReader over IoRecordReader: the plaintext of a framed ciphertext,
\* or an error when the framing is missing.
Open(key, cipher) ==
    IF cipher = <<>>
    THEN [ok |-> FALSE, plain |-> <<>>]
    ELSE [ok |-> TRUE,
          plain |-> [i \in 1..Len(cipher) - 1 |->
                        (cipher[i + 1] + key + cipher[1]) % 2]]

\* encoding::encode of a reader that holds `bytes`.
Encode(bytes, key, max_object_size, nonce) ==
    LET c == CopyAndHash(<<bytes>>)
        stream == IF IsSome(key)
                  THEN Seal(Unwrap(key), nonce, c.copied)
                  ELSE c.copied
        writer == SplitWriteAll(SplitWriterNew(max_object_size), stream)
    IN  [blob_ref |-> [resource_key |-> SplitCommit(writer), sha256 |-> c.sha256],
         bytes_copied |-> c.bytes_copied]

\* SplitReader: the buffers fill_buf yields, one blob after the other.
SplitReader(oids) == [i \in 1..Len(oids) |-> FindBlob(oids[i])]

\* unverified::decode
Decode(entry, resource_key, key, want_sha256) ==
    LET opened == IF IsSome(key)
                  THEN Open(Unwrap(key), CopyAndHash(SplitReader(resource_key)).copied)
                  ELSE [ok |-> TRUE, plain |-> <<>>]
        c == IF IsSome(key)
             THEN CopyAndHash(<<opened.plain>>)
             ELSE CopyAndHash(SplitReader(resource_key))
        failed == [NoDecode EXCEPT !.entry = entry, !.want_sha256 = want_sha256]
    IN  IF ~opened.ok
        THEN [failed EXCEPT !.error = "decrypt"]
        ELSE IF IsSome(want_sha256) /\ Unwrap(want_sha256) # c.sha256
        THEN [failed EXCEPT !.error = "Expected sha256", !.out = c.copied]
        ELSE [entry |-> entry, want_sha256 |-> want_sha256, ok |-> TRUE,
              error |-> "", out |-> c.copied, size |-> c.bytes_copied,
              blob_ref |-> Some([resource_key |-> resource_key,
                                 sha256 |-> c.sha256])]

\* The callers of unverified::decode: encoding::decode (packs), decode_state,
\* decode_namespace, and update::resolve_state_ref.
DecodeEntries == {"decode", "decode_state", "decode_namespace", "resolve_state_ref"}

\* A caller that never hands over the inner hash.
WantSha256_Never(entry, sha256) == None

\* The want_sha256 each caller hands over for a BlobRef with inner hash sha256.
WantSha256(entry, sha256) ==
    IF entry = "resolve_state_ref" THEN None ELSE Some(sha256)

\* The payloads: bytes, an optional key and a chunk size.
Payloads ==
    [bytes : BytesUpTo(MaxLen),
     key : {None} \cup {Some(k) : k \in SymmetricKeys},
     chunk_size : ChunkSizes]

InitCodecPayload ==
    /\ InitStores
    /\ InitProtocol
    /\ config[2].namespace = "a"
    /\ InitLoop
    /\ odb = <<>>
    /\ last_push = NoPush
    /\ last_batch = NoBatch
    /\ payload \in Payloads
    /\ encoded = None
    /\ decoded = NoDecode
    /\ reencoded = None
    /\ mem_state = [namespaces |-> <<>>, parents |-> <<>>]
    /\ serialized = None
    /\ deserialized = None
    /\ reserialized = None
    /\ mem_namespace = NoNamespace
    /\ namespace_back = None
    /\ InitMain
    /\ InitFlock

\* encode(payload)
EncodePayload ==
    /\ encoded = None
    /\ \E nonce \in Nonces :
         /\ ~IsSome(payload.key) => nonce = 0
         /\ encoded' = Some(Encode(payload.bytes, payload.key,
                                   payload.chunk_size, nonce))
    /\ UNCHANGED <<payload, decoded, reencoded, protocol_vars, loop_vars, ff_vars,
                   ser_vars,
                   main_vars,
                   lock_vars,
                   walk_vars,
                   store_vars>>

\* The encoded BlobRef is decoded through one of the callers, with the key.
DecodeBlobRef ==
    /\ IsSome(encoded)
    /\ decoded = NoDecode
    /\ reencoded = None
    /\ \E entry \in DecodeEntries :
         LET blob_ref == Unwrap(encoded).blob_ref
         IN  decoded' = Decode(entry, blob_ref.resource_key, payload.key,
                               WantSha256(entry, blob_ref.sha256))
    /\ UNCHANGED <<payload, encoded, reencoded, protocol_vars, loop_vars, ff_vars,
                   ser_vars,
                   main_vars,
                   lock_vars,
                   walk_vars,
                   store_vars>>

\* The encoded BlobRef is decoded after its inner hash was replaced by the
\* hash of other bytes.
DecodeChangedBlobRef ==
    /\ IsSome(encoded)
    /\ decoded = NoDecode
    /\ reencoded = None
    /\ \E entry \in DecodeEntries, other \in BytesUpTo(1) :
         LET blob_ref == Unwrap(encoded).blob_ref
             sha256 == Sha256(other)
         IN  /\ sha256 # blob_ref.sha256
             /\ decoded' = Decode(entry, blob_ref.resource_key, payload.key,
                                  WantSha256(entry, sha256))
    /\ UNCHANGED <<payload, encoded, reencoded, protocol_vars, loop_vars, ff_vars,
                   ser_vars,
                   main_vars,
                   lock_vars,
                   walk_vars,
                   store_vars>>

\* The payload is encoded again at another chunk size.
EncodeOtherChunkSize ==
    /\ IsSome(encoded)
    /\ decoded = NoDecode
    /\ reencoded = None
    /\ \E max_object_size \in ChunkSizes \ {payload.chunk_size}, nonce \in Nonces :
         /\ ~IsSome(payload.key) => nonce = 0
         /\ reencoded' = Some([chunk_size |-> max_object_size,
                               result |-> Encode(payload.bytes, payload.key,
                                                 max_object_size, nonce)])
    /\ UNCHANGED <<payload, encoded, decoded, protocol_vars, loop_vars, ff_vars,
                   ser_vars,
                   main_vars,
                   lock_vars,
                   walk_vars,
                   store_vars>>

NextCodec ==
    \/ EncodePayload
    \/ DecodeBlobRef
    \/ DecodeChangedBlobRef
    \/ EncodeOtherChunkSize

SpecCodec == InitCodecPayload /\ [][NextCodec]_vars

\* ------------------------------------------------------- codec properties

\* The last decode was handed the inner hash encode returned, or none.
DecodedAsEncoded ==
    /\ decoded.entry # "none"
    /\ \/ ~IsSome(decoded.want_sha256)
       \/ decoded.want_sha256 = Some(Unwrap(encoded).blob_ref.sha256)

\* C17: what encode returns carries SHA-256 of the payload as inner hash and
\* reports the payload's length; decoding it with the same key succeeds,
\* yields the payload's bytes and reports the same length.
C17_CodecRoundTrip ==
    /\ IsSome(encoded) =>
           /\ Unwrap(encoded).blob_ref.sha256 = Sha256(payload.bytes)
           /\ Unwrap(encoded).bytes_copied = Len(payload.bytes)
    /\ DecodedAsEncoded =>
           /\ decoded.ok
           /\ decoded.out = payload.bytes
           /\ decoded.size = Len(payload.bytes)
           /\ Unwrap(decoded.blob_ref).sha256 = Sha256(payload.bytes)

\* An encrypted payload longer than its chunk size was stored as several
\* blobs, the last one not empty, and decoded back.
C17_Witness ==
    /\ DecodedAsEncoded
    /\ decoded.ok
    /\ IsSome(payload.key)
    /\ Len(payload.bytes) > payload.chunk_size
    /\ Len(Unwrap(encoded).blob_ref.resource_key) = 2
    /\ decoded.out = payload.bytes
    /\ \E i, j \in 1..Len(payload.bytes) : payload.bytes[i] # payload.bytes[j]

\* C18: a decode that is handed an inner hash other than SHA-256 of the
\* plaintext it decodes fails with "Expected sha256"; and every caller hands
\* the BlobRef's inner hash over, except resolve_state_ref, which decodes the
\* state found through a backend ref.
C18_MismatchRejected ==
    decoded.entry # "none" =>
        /\ (/\ IsSome(decoded.want_sha256)
            /\ decoded.want_sha256 # Some(Sha256(payload.bytes))) =>
               /\ ~decoded.ok
               /\ decoded.error = "Expected sha256"
        /\ IsSome(decoded.want_sha256) <=> decoded.entry # "resolve_state_ref"

\* decode_state was handed a BlobRef with a changed inner hash and refused it.
C18_Witness ==
    /\ decoded.entry = "decode_state"
    /\ IsSome(decoded.want_sha256)
    /\ decoded.want_sha256 # Some(Sha256(payload.bytes))
    /\ decoded.error = "Expected sha256"
    /\ payload.bytes # <<>>

\* The two encodings of the payload, at its chunk size and at the other one.
FirstKey == Unwrap(encoded).blob_ref.resource_key
SecondKey == Unwrap(reencoded).result.blob_ref.resource_key

\* C19 as stated: the two encodings of a payload at different chunk sizes have
\* different resource keys and the same inner hash.
C19_Original ==
    IsSome(reencoded) =>
        /\ FirstKey # SecondKey
        /\ Unwrap(encoded).blob_ref.sha256
               = Unwrap(reencoded).result.blob_ref.sha256

\* C19: the two encodings of a payload at different chunk sizes have the same
\* inner hash; without a key their resource keys differ exactly when the
\* payload is at least as long as the smaller chunk size.
C19_ChunkingIndependence ==
    IsSome(reencoded) =>
        /\ Unwrap(encoded).blob_ref.sha256
               = Unwrap(reencoded).result.blob_ref.sha256
        /\ ~IsSome(payload.key) =>
               (FirstKey # SecondKey
                    <=> Len(payload.bytes) >= Min(payload.chunk_size,
                                                  Unwrap(reencoded).chunk_size))

\* A payload without key, longer than the smaller chunk size, was encoded at
\* both chunk sizes and the first blobs of the two encodings differ.
C19_Witness ==
    /\ IsSome(reencoded)
    /\ ~IsSome(payload.key)
    /\ Len(payload.bytes) > Min(payload.chunk_size, Unwrap(reencoded).chunk_size)
    /\ FirstKey[1] # SecondKey[1]
    /\ Unwrap(encoded).blob_ref.sha256 = Sha256(payload.bytes)

\* --------------------------------------- serialization.rs: State <-> bytes

\* The most parents an in-memory State holds.
MaxParents == 2

\* The StateRefs a State can name as parents: a resource key and an inner hash.
ParentRefs == {[resource_key |-> r, sha256 |-> h] : r \in 1..2, h \in 1..2}

\* The NamespaceRefs a State can hold.
HeldNamespaceRefs == {NamespaceRefOf(1), NamespaceRefOf(2)}

\* The order of String: the rank of a namespace name, and the name of a rank.
NameRank(name) == IF name = "a" THEN 1 ELSE 2
NameOfRank(rank) == IF rank = 1 THEN "a" ELSE "b"

\* derive(Ord) on SerializedBlobRef: by resource key, then by inner hash.
BlobRefLessOrEqual(a, b) ==
    \/ a.resource_key < b.resource_key
    \/ a.resource_key = b.resource_key /\ a.sha256 <= b.sha256

\* Vec::sort, by insertion: x goes after the elements that are not above it.
RECURSIVE InsertSorted(_, _)
InsertSorted(x, seq) ==
    IF seq = <<>>
    THEN <<x>>
    ELSE IF BlobRefLessOrEqual(Head(seq), x)
    THEN <<Head(seq)>> \o InsertSorted(x, Tail(seq))
    ELSE <<x>> \o seq

RECURSIVE SortParents(_)
SortParents(parents) ==
    IF parents = <<>>
    THEN <<>>
    ELSE InsertSorted(parents[Len(parents)],
                      SortParents(SubSeq(parents, 1, Len(parents) - 1)))

\* A map that keeps the entries in the order the HashMap yielded them.
CollectNamespaces_IterationOrder(entries) == entries

\* .collect() into BTreeMap<String, _>: the entries in the order of their keys.
RECURSIVE CollectNamespaces(_)
CollectNamespaces(entries) ==
    IF entries = <<>>
    THEN <<>>
    ELSE LET least == CHOOSE i \in 1..Len(entries) :
                          \A j \in 1..Len(entries) :
                              NameRank(entries[i][1]) <= NameRank(entries[j][1])
             others == [j \in 1..Len(entries) - 1 |->
                           IF j < least THEN entries[j] ELSE entries[j + 1]]
         IN  <<entries[least]>> \o CollectNamespaces(others)

\* From<&State> for SerializedState
StateToSerialized(r) ==
    [namespaces |-> CollectNamespaces(r.namespaces),
     parents |-> SortParents(r.parents)]

\* The bytes of a BlobRef.
BlobRefBytes(blob_ref) == <<blob_ref.resource_key, blob_ref.sha256>>

RECURSIVE NamespacesBytes(_)
NamespacesBytes(entries) ==
    IF entries = <<>>
    THEN <<>>
    ELSE <<NameRank(Head(entries)[1])>> \o BlobRefBytes(Head(entries)[2])
             \o NamespacesBytes(Tail(entries))

RECURSIVE ParentsBytes(_)
ParentsBytes(parents) ==
    IF parents = <<>>
    THEN <<>>
    ELSE BlobRefBytes(Head(parents)) \o ParentsBytes(Tail(parents))

\* bincode::serialize(&SerializedState): each collection is its length, then
\* its elements in order.
BincodeSerialize(state) ==
    <<Len(state.namespaces)>> \o NamespacesBytes(state.namespaces)
        \o <<Len(state.parents)>> \o ParentsBytes(state.parents)

\* bincode::deserialize::<SerializedState>
BincodeDeserialize(bytes) ==
    LET n == bytes[1]
        at == 3 * n + 2
        m == bytes[at]
    IN  [namespaces |-> [i \in 1..n |->
                            <<NameOfRank(bytes[3 * i - 1]),
                              [resource_key |-> bytes[3 * i],
                               sha256 |-> bytes[3 * i + 1]]>>],
         parents |-> [i \in 1..m |->
                         [resource_key |-> bytes[at + 2 * i - 1],
                          sha256 |-> bytes[at + 2 * i]]]]

\* TryFrom<&SerializedState> for State: the entries go into a HashMap, which
\* yields them in `order`; the parents keep the order of the bytes.
SerializedToState(r, order) ==
    [namespaces |-> [i \in 1..Len(r.namespaces) |-> r.namespaces[order[i]]],
     parents |-> r.parents]

\* The HashMaps over the namespace names, each with the orders it can yield
\* its entries in.
HashMaps ==
    UNION {{[i \in 1..Len(order) |-> <<order[i], m[order[i]]>>] :
               order \in IterationOrders(DOMAIN m)} :
           m \in MapsOver(NamespaceNames, HeldNamespaceRefs)}

\* The sequences of at most n parents.
ParentsUpTo(n) == UNION {[1..k -> ParentRefs] : k \in 0..n}

\* The in-memory States.
MemStates == [namespaces : HashMaps, parents : ParentsUpTo(MaxParents)]

\* The bytes an object id is written in (20 in the code).
OidBytes == 2

\* The object ids of the blobs a resource key can name.
KeyOids == {1, 2}

\* ObjectId::as_bytes: the id as OidBytes bytes, here binary digits.
OidAsBytes(oid) == [i \in 1..OidBytes |-> (oid \div (2 ^ (OidBytes - i))) % 2]

\* An id read from its bytes backwards.
RECURSIVE OidFromBytes_Reversed(_)
OidFromBytes_Reversed(bytes) ==
    IF bytes = <<>>
    THEN 0
    ELSE 2 * OidFromBytes_Reversed(Tail(bytes)) + Head(bytes)

\* ObjectId::from_bytes_or_panic
RECURSIVE OidFromBytes(_)
OidFromBytes(bytes) ==
    IF bytes = <<>>
    THEN 0
    ELSE 2 * OidFromBytes(SubSeq(bytes, 1, Len(bytes) - 1)) + bytes[Len(bytes)]

\* From<&ResourceKey> for SerializedResourceKey, Git: the ids' bytes, flat.
RECURSIVE ResourceKeyToSerialized(_)
ResourceKeyToSerialized(oids) ==
    IF oids = <<>>
    THEN <<>>
    ELSE OidAsBytes(Head(oids)) \o ResourceKeyToSerialized(Tail(oids))

\* TryFrom<&SerializedResourceKey> for ResourceKey, Git: "oids are 20 bytes
\* each", else the chunks read as ids.
SerializedToResourceKey(s_oids) ==
    IF Len(s_oids) % OidBytes # 0
    THEN [ok |-> FALSE, key |-> <<>>]
    ELSE [ok |-> TRUE,
          key |-> [i \in 1..(Len(s_oids) \div OidBytes) |->
                      OidFromBytes(SubSeq(s_oids, (i - 1) * OidBytes + 1,
                                          i * OidBytes))]]

\* From<&PackRef> for SerializedPackRef
PackRefToSerialized(r) ==
    [blob_ref |-> [resource_key |-> ResourceKeyToSerialized(r.blob_ref.resource_key),
                   sha256 |-> r.blob_ref.sha256],
     random_name |-> r.random_name]

\* TryFrom<&SerializedPackRef> for PackRef
SerializedToPackRef(r) ==
    LET resource_key == SerializedToResourceKey(r.blob_ref.resource_key)
    IN  [ok |-> resource_key.ok,
         value |-> [blob_ref |-> [resource_key |-> resource_key.key,
                                  sha256 |-> r.blob_ref.sha256],
                    random_name |-> r.random_name]]

\* From<Ref> for SerializedRef
RefToSerialized(r) ==
    [type |-> r.type, name |-> r.name,
     oid |-> IF IsSome(r.oid) THEN Some(OidAsBytes(Unwrap(r.oid))) ELSE None]

\* TryFrom<SerializedRef> for Ref
SerializedToRef(r) ==
    [type |-> r.type, name |-> r.name,
     oid |-> IF IsSome(r.oid) THEN Some(OidFromBytes(Unwrap(r.oid))) ELSE None]

\* From<&Namespace> for SerializedNamespace: the refs collected into a
\* BTreeMap, the pack and the random name as they are.
NamespaceToSerialized(r) ==
    [refs |-> CollectNamespaces([i \in 1..Len(r.refs) |->
                                    <<r.refs[i][1], RefToSerialized(r.refs[i][2])>>]),
     pack |-> IF IsSome(r.pack)
              THEN Some(PackRefToSerialized(Unwrap(r.pack)))
              ELSE None,
     random_name |-> r.random_name]

\* TryFrom<&SerializedNamespace> for Namespace; `order` is the order in which
\* the HashMap built from the refs yields them.
SerializedToNamespace(r, order) ==
    LET pack == IF IsSome(r.pack)
                THEN SerializedToPackRef(Unwrap(r.pack))
                ELSE [ok |-> TRUE, value |-> None]
    IN  [ok |-> pack.ok,
         value |-> [refs |-> [i \in 1..Len(r.refs) |->
                                <<r.refs[order[i]][1],
                                  SerializedToRef(r.refs[order[i]][2])>>],
                    pack |-> IF IsSome(r.pack) THEN Some(pack.value) ELSE None,
                    random_name |-> r.random_name]]

\* The PackRefs a Namespace can hold: resource keys of at most two blobs.
HeldPackRefs ==
    {[blob_ref |-> [resource_key |-> key, sha256 |-> 1], random_name |-> 1] :
        key \in UNION {[1..k -> KeyOids] : k \in 0..2}}

\* The HashMaps of refs, each with the orders it can yield its entries in; the
\* ref names are ordered as the namespace names are.
RefHashMaps ==
    UNION {{[i \in 1..Len(order) |-> <<order[i], m[order[i]]>>] :
               order \in IterationOrders(DOMAIN m)} :
           m \in MapsOver(NamespaceNames, RefsOver({1}))}

\* The in-memory Namespaces.
MemNamespaces ==
    [refs : RefHashMaps,
     pack : {None} \cup {Some(pack_ref) : pack_ref \in HeldPackRefs},
     random_name : {1}]

InitSerialization ==
    /\ InitStores
    /\ InitProtocol
    /\ config[2].namespace = "a"
    /\ InitLoop
    /\ odb = <<>>
    /\ last_push = NoPush
    /\ last_batch = NoBatch
    /\ payload = NoPayload
    /\ encoded = None
    /\ decoded = NoDecode
    /\ reencoded = None
    /\ \/ /\ mem_state \in MemStates
          /\ mem_namespace = NoNamespace
       \/ /\ mem_state = [namespaces |-> <<>>, parents |-> <<>>]
          /\ mem_namespace \in MemNamespaces
    /\ serialized = None
    /\ deserialized = None
    /\ reserialized = None
    /\ namespace_back = None
    /\ InitMain
    /\ InitFlock

\* encode_state up to the bytes: State -> SerializedState -> bincode.
SerializeState ==
    /\ serialized = None
    /\ serialized' = Some(BincodeSerialize(StateToSerialized(mem_state)))
    /\ UNCHANGED <<mem_state, mem_namespace, namespace_back, deserialized, reserialized,
                   protocol_vars, loop_vars, ff_vars, codec_vars,
                   main_vars,
                   lock_vars,
                   walk_vars,
                   store_vars>>

\* decode_unverified_state from the bytes on: bincode -> SerializedState -> State.
DeserializeState ==
    /\ IsSome(serialized)
    /\ deserialized = None
    /\ LET r == BincodeDeserialize(Unwrap(serialized))
       IN  \E order \in IterationOrders(1..Len(r.namespaces)) :
               deserialized' = Some(SerializedToState(r, order))
    /\ UNCHANGED <<mem_state, mem_namespace, namespace_back, serialized, reserialized,
                   protocol_vars, loop_vars, ff_vars, codec_vars,
                   main_vars,
                   lock_vars,
                   walk_vars,
                   store_vars>>

\* The State read back is serialized again.
ReserializeState ==
    /\ IsSome(deserialized)
    /\ reserialized = None
    /\ reserialized' =
           Some(BincodeSerialize(StateToSerialized(Unwrap(deserialized))))
    /\ UNCHANGED <<mem_state, mem_namespace, namespace_back, serialized, deserialized,
                   protocol_vars, loop_vars, ff_vars, codec_vars,
                   main_vars,
                   lock_vars,
                   walk_vars,
                   store_vars>>

\* The Namespace is converted to a SerializedNamespace and back.
ConvertNamespace ==
    /\ namespace_back = None
    /\ LET r == NamespaceToSerialized(mem_namespace)
       IN  \E order \in IterationOrders(1..Len(r.refs)) :
               namespace_back' = Some(SerializedToNamespace(r, order))
    /\ UNCHANGED <<mem_state, mem_namespace, serialized, deserialized,
                   reserialized, protocol_vars, loop_vars, ff_vars, codec_vars,
                   main_vars, lock_vars, walk_vars,
                   store_vars>>

NextSerialization ==
    \/ SerializeState
    \/ DeserializeState
    \/ ReserializeState
    \/ ConvertNamespace

SpecSerialization == InitSerialization /\ [][NextSerialization]_vars

\* ----------------------------------------------- serialization properties

\* The namespace names in the bytes, in the order they are emitted, and the
\* parents in the bytes, in the order they are emitted.
EmittedNames(bytes) ==
    [i \in 1..bytes[1] |-> bytes[3 * i - 1]]
EmittedParents(bytes) ==
    LET at == 3 * bytes[1] + 2
    IN  [i \in 1..bytes[at] |-> <<bytes[at + 2 * i - 1], bytes[at + 2 * i]>>]

\* C20: the bytes of a State emit its namespaces in the order of their names
\* and its parents in the order of (resource key, inner hash), whatever order
\* the State held them in; and the State read back from the bytes serializes
\* to the same bytes.
C20_CanonicalSerialization ==
    /\ IsSome(serialized) =>
           LET names == EmittedNames(Unwrap(serialized))
               parents == EmittedParents(Unwrap(serialized))
           IN  /\ \A i, j \in 1..Len(names) : i < j => names[i] < names[j]
               /\ \A i, j \in 1..Len(parents) : i < j =>
                      \/ parents[i][1] < parents[j][1]
                      \/ /\ parents[i][1] = parents[j][1]
                         /\ parents[i][2] <= parents[j][2]
               /\ Len(names) = Len(mem_state.namespaces)
               /\ Len(parents) = Len(mem_state.parents)
    /\ IsSome(reserialized) => reserialized = serialized

\* A State that held two namespaces and two parents, both against their
\* order, was serialized, read back with the namespaces again against their
\* order, and serialized again.
C20_Witness ==
    /\ IsSome(reserialized)
    /\ Len(mem_state.namespaces) = 2
    /\ NameRank(mem_state.namespaces[1][1]) > NameRank(mem_state.namespaces[2][1])
    /\ Len(mem_state.parents) = 2
    /\ ~BlobRefLessOrEqual(mem_state.parents[1], mem_state.parents[2])
    /\ Unwrap(deserialized).namespaces[1][1] = "b"

\* ------------------------------------------------ main.rs: the command loop

\* The most lines standard input holds.
MaxLines == 3

\* A line is the sequence of its whitespace-separated tokens, a token the
\* sequence of its pieces; the blank line has no token.
Token(text) == <<text>>
Blank == <<>>

\* The lines git, or anything else, can write to the helper.
InputLines ==
    { <<Token("capabilities")>>,
      <<Token("list")>>,
      <<<<"list", "ing">>>>,
      <<Token("push"), Token("a:b")>>,
      <<Token("fetch"), Token("oid")>>,
      <<Token("option"), Token("verbosity")>>,
      Blank }

\* line.split_ascii_whitespace().next().unwrap_or_default()
FirstToken(line) == IF line = <<>> THEN <<>> ELSE line[1]

\* str::starts_with
HasPrefix(token, prefix) ==
    /\ Len(token) >= Len(prefix)
    /\ SubSeq(token, 1, Len(prefix)) = prefix

\* parse_protocol_command
ParseProtocolCommand(line) ==
    LET command == FirstToken(line)
    IN  IF command = Token("capabilities") THEN "Capabilities"
        ELSE IF HasPrefix(command, Token("list")) THEN "List"
        ELSE IF HasPrefix(command, Token("push")) THEN "Push"
        ELSE IF HasPrefix(command, Token("fetch")) THEN "Fetch"
        ELSE "Ignore"

\* A collector that takes a line with another keyword for the end of the batch.
RECURSIVE CollectLines_OtherKeywordEnds(_, _, _)
CollectLines_OtherKeywordEnds(lines, key, pushes) ==
    IF lines = <<>>
    THEN [ok |-> TRUE, pushes |-> pushes, lines |-> <<>>]
    ELSE IF FirstToken(Head(lines)) = key
    THEN CollectLines_OtherKeywordEnds(Tail(lines), key, Append(pushes, Head(lines)))
    ELSE [ok |-> TRUE, pushes |-> pushes, lines |-> Tail(lines)]

\* collect_lines: `pushes` starts as the initial line; returns whether it
\* succeeded, the batch, and the lines it left unread.
RECURSIVE CollectLines(_, _, _)
CollectLines(lines, key, pushes) ==
    IF lines = <<>>
    THEN [ok |-> TRUE, pushes |-> pushes, lines |-> <<>>]
    ELSE IF FirstToken(Head(lines)) = key
    THEN CollectLines(Tail(lines), key, Append(pushes, Head(lines)))
    ELSE IF Head(lines) # Blank
    THEN [ok |-> FALSE, pushes |-> pushes, lines |-> Tail(lines)]
    ELSE [ok |-> TRUE, pushes |-> pushes, lines |-> Tail(lines)]

\* One handler that ran: which, on which batch, and whether it returned Ok.
Ran(command, batch, ok) == [command |-> command, batch |-> batch, ok |-> ok]

\* Standard input holds any lines; nothing was read or written yet.
InitMainLoop ==
    /\ InitStores
    /\ InitProtocol
    /\ config[2].namespace = "a"
    /\ InitLoop
    /\ odb = <<>>
    /\ last_push = NoPush
    /\ last_batch = NoBatch
    /\ payload = NoPayload
    /\ encoded = None
    /\ decoded = NoDecode
    /\ reencoded = None
    /\ mem_state = [namespaces |-> <<>>, parents |-> <<>>]
    /\ serialized = None
    /\ deserialized = None
    /\ reserialized = None
    /\ mem_namespace = NoNamespace
    /\ namespace_back = None
    /\ stdin \in UNION {[1..n -> InputLines] : n \in 0..MaxLines}
    /\ printed = <<>>
    /\ ran = <<>>
    /\ exited = "no"
    /\ InitFlock

\* The loop of git_special_remote_main has a next line, and it parses as
\* `command`.
Received(command) ==
    /\ exited = "no"
    /\ stdin # <<>>
    /\ ParseProtocolCommand(Head(stdin)) = command

\* handle_capabilities: println!("push\nfetch\n")
HandleCapabilities ==
    /\ Received("Capabilities")
    /\ stdin' = Tail(stdin)
    /\ printed' = printed \o <<"push", "fetch", "">>
    /\ ran' = Append(ran, Ran("capabilities", <<>>, TRUE))
    /\ UNCHANGED <<exited, protocol_vars, loop_vars, ff_vars, codec_vars, ser_vars,
                   lock_vars,
                   walk_vars,
                   store_vars>>

\* handle_list: reconcile, then one line per ref of the namespace and a
\* blank line; an error of the reconcile ends the process.
HandleList ==
    /\ Received("List")
    /\ stdin' = Tail(stdin)
    /\ \E ok \in BOOLEAN, refs \in {<<>>, <<"ref">>} :
         /\ ran' = Append(ran, Ran("list", <<>>, ok))
         /\ printed' = IF ok THEN printed \o refs \o <<"">> ELSE printed
         /\ exited' = IF ok THEN exited ELSE "error"
    /\ UNCHANGED <<protocol_vars, loop_vars, ff_vars, codec_vars, ser_vars,
                   lock_vars,
                   walk_vars,
                   store_vars>>

\* handle_push and handle_fetch: collect the batch, `?`, then run push or
\* fetch on it; push writes its status lines, fetch a blank line.
HandleBatch(command, key, name, output) ==
    /\ Received(command)
    /\ LET c == CollectLines(Tail(stdin), key, <<Head(stdin)>>)
       IN  /\ stdin' = c.lines
           /\ IF ~c.ok
              THEN /\ exited' = "error"
                   /\ UNCHANGED <<printed, ran>>
              ELSE \E ok \in BOOLEAN :
                     /\ ran' = Append(ran, Ran(name, c.pushes, ok))
                     /\ printed' = IF ok THEN printed \o output ELSE printed
                     /\ exited' = IF ok THEN exited ELSE "error"
    /\ UNCHANGED <<protocol_vars, loop_vars, ff_vars, codec_vars, ser_vars,
                   lock_vars,
                   walk_vars,
                   store_vars>>

HandlePush == HandleBatch("Push", Token("push"), "push", <<"ok", "">>)

HandleFetch == HandleBatch("Fetch", Token("fetch"), "fetch", <<"">>)

\* ProtocolCommand::Ignore => Ok(())
HandleIgnore ==
    /\ Received("Ignore")
    /\ stdin' = Tail(stdin)
    /\ UNCHANGED <<printed, ran, exited,
                   protocol_vars, loop_vars, ff_vars, codec_vars, ser_vars,
                   lock_vars,
                   walk_vars,
                   store_vars>>

\* None => break
EndOfInput ==
    /\ exited = "no"
    /\ stdin = <<>>
    /\ exited' = "ok"
    /\ UNCHANGED <<stdin, printed, ran,
                   protocol_vars, loop_vars, ff_vars, codec_vars, ser_vars,
                   lock_vars,
                   walk_vars,
                   store_vars>>

NextMainLoop ==
    \/ HandleCapabilities
    \/ HandleList
    \/ HandlePush
    \/ HandleFetch
    \/ HandleIgnore
    \/ EndOfInput

SpecMainLoop == InitMainLoop /\ [][NextMainLoop]_vars

\* ------------------------------------------------- command loop properties

\* The four commands of the protocol.
Keywords == {Token("capabilities"), Token("list"), Token("push"), Token("fetch")}

\* C21: when the next line's command is none of capabilities, list, push and
\* fetch, the step that reads it writes nothing, runs no handler, does not end
\* the loop, and leaves the lines after it to be read next.
C21_OtherCommandsIgnored ==
    [][(/\ exited = "no"
        /\ stdin # <<>>
        /\ FirstToken(Head(stdin)) \notin Keywords) =>
            /\ printed' = printed
            /\ ran' = ran
            /\ exited' = exited
            /\ stdin' = Tail(stdin)]_vars

\* The number of lines at the head of `lines` whose first token is `key`.
LeadingWith(lines, key) ==
    CHOOSE k \in 0..Len(lines) :
        /\ \A i \in 1..k : FirstToken(lines[i]) = key
        /\ k < Len(lines) => FirstToken(lines[k + 1]) # key

\* The step that reads a command line of `command` collects the line and the
\* lines with first token `key` that follow it; at a blank line or at the end
\* of input it runs the handler `name` on them, and at any other line it
\* fails without running a handler or writing anything.
BatchCollected(command, key, name) ==
    Received(command) =>
        LET rest == Tail(stdin)
            k == LeadingWith(rest, key)
            batch == <<Head(stdin)>> \o SubSeq(rest, 1, k)
        IN  IF k = Len(rest)
            THEN /\ stdin' = <<>>
                 /\ \E ok \in BOOLEAN : ran' = Append(ran, Ran(name, batch, ok))
            ELSE IF rest[k + 1] = Blank
            THEN /\ stdin' = SubSeq(rest, k + 2, Len(rest))
                 /\ \E ok \in BOOLEAN : ran' = Append(ran, Ran(name, batch, ok))
            ELSE /\ exited' = "error"
                 /\ ran' = ran
                 /\ printed' = printed

\* C22: a push or fetch batch is the command line and the following lines
\* with the same keyword up to the first blank line; another non-blank line
\* fails the command before push or fetch runs; the end of input ends the
\* batch, which is then run.
C22_BatchUpToBlankLine ==
    [][/\ BatchCollected("Push", Token("push"), "push")
       /\ BatchCollected("Fetch", Token("fetch"), "fetch")]_vars

\* A push batch of two lines was collected and run, and the loop then ended
\* at the end of input.
C22_Witness ==
    /\ Len(ran) = 1
    /\ ran[1].command = "push"
    /\ ran[1].ok
    /\ Len(ran[1].batch) = 2
    /\ printed = <<"ok", "">>
    /\ exited = "ok"

\* ------------------------------------------- main.rs: the user repo's lock

\* The most commands one helper process handles.
MaxCommands == 2

\* A lock that is handed out whoever holds it.
FlockGranted_Shared(holders) == TRUE

\* FileLock::lock(lockfile, is_blocking = true, write): the call returns when
\* no other process holds the lock.
FlockGranted(holders) == holders = {}

\* Args::new and the two create_dir_all calls: the state and lock directories
\* exist, no store is opened.
CreateDirs(p) ==
    /\ stage[p] = "start"
    /\ stage' = [stage EXCEPT ![p] = "dirs"]
    /\ UNCHANGED <<flock, commands, protocol_vars, loop_vars, ff_vars,
                   codec_vars, ser_vars, main_vars,
                   walk_vars,
                   store_vars>>

\* acquire_flock(lock_path/recursive_remote.lock)
AcquireFlock(p) ==
    /\ stage[p] = "dirs"
    /\ FlockGranted(flock)
    /\ flock' = flock \cup {p}
    /\ stage' = [stage EXCEPT ![p] = "initializing"]
    /\ UNCHANGED <<commands, protocol_vars, loop_vars, ff_vars,
                   codec_vars, ser_vars, main_vars,
                   walk_vars,
                   store_vars>>

\* initialize_state_repo returned: the stores exist and were collected.
InitializeStateRepo(p) ==
    /\ stage[p] = "initializing"
    /\ stage' = [stage EXCEPT ![p] = "waiting"]
    /\ UNCHANGED <<flock, commands, protocol_vars, loop_vars, ff_vars,
                   codec_vars, ser_vars, main_vars,
                   walk_vars,
                   store_vars>>

\* The loop received a command line and dispatched it.
BeginCommand(p) ==
    /\ stage[p] = "waiting"
    /\ commands[p] < MaxCommands
    /\ stage' = [stage EXCEPT ![p] = "handling"]
    /\ UNCHANGED <<flock, commands, protocol_vars, loop_vars, ff_vars,
                   codec_vars, ser_vars, main_vars,
                   walk_vars,
                   store_vars>>

\* The handler returned Ok: the loop waits for the next line.
EndCommand(p) ==
    /\ stage[p] = "handling"
    /\ stage' = [stage EXCEPT ![p] = "waiting"]
    /\ commands' = [commands EXCEPT ![p] = @ + 1]
    /\ UNCHANGED <<flock, protocol_vars, loop_vars, ff_vars,
                   codec_vars, ser_vars, main_vars,
                   walk_vars,
                   store_vars>>

\* git_special_remote_main returns, at the end of input or with the error of
\* initialize_state_repo or of a handler: _branch_lock is dropped.
ExitProcess(p) ==
    /\ stage[p] \in {"initializing", "waiting", "handling"}
    /\ stage' = [stage EXCEPT ![p] = "exited"]
    /\ flock' = flock \ {p}
    /\ UNCHANGED <<commands, protocol_vars, loop_vars, ff_vars,
                   codec_vars, ser_vars, main_vars,
                   walk_vars,
                   store_vars>>

\* Another invocation of the helper by git in the same user repository.
StartAgain(p) ==
    /\ stage[p] = "exited"
    /\ commands[p] < MaxCommands
    /\ stage' = [stage EXCEPT ![p] = "start"]
    /\ UNCHANGED <<flock, commands, protocol_vars, loop_vars, ff_vars,
                   codec_vars, ser_vars, main_vars,
                   walk_vars,
                   store_vars>>

NextFlock ==
    \E p \in Processes :
        \/ CreateDirs(p)
        \/ AcquireFlock(p)
        \/ InitializeStateRepo(p)
        \/ BeginCommand(p)
        \/ EndCommand(p)
        \/ ExitProcess(p)
        \/ StartAgain(p)

\* Both helper processes are about to start; nothing else has run.
InitProcesses ==
    /\ InitStores
    /\ InitProtocol
    /\ config[2].namespace = "a"
    /\ InitLoop
    /\ odb = <<>> /\ last_push = NoPush /\ last_batch = NoBatch
    /\ InitCodec

SpecFlock == InitProcesses /\ [][NextFlock]_vars

\* ----------------------------------------------------------- lock property

\* Process p initializes, or runs a handler on, the local stores.
InStores(p) == stage[p] \in {"initializing", "waiting", "handling"}

\* C23: a process is in the stores only while it holds the lock, which it
\* got before initialize_state_repo and keeps until it exits; and no two
\* processes are in the stores at the same time.
C23_HandlingMutuallyExclusive ==
    /\ \A p \in Processes : InStores(p) <=> p \in flock
    /\ \A p, q \in Processes : InStores(p) /\ InStores(q) => p = q

\* One process handles a command while the other waits for the lock, after
\* having handled a command itself in an earlier run.
C23_Witness ==
    \E p, q \in Processes :
        /\ stage[p] = "handling"
        /\ stage[q] = "dirs"
        /\ commands[q] >= 1
        /\ flock = {p}

\* ------------------------------------------------ the state a push commits

\* The state a reconcile of client c has just returned: the state of the
\* commit its tracking ref now holds, or the default state.
ReconciledState(c) ==
    IF IsSome(tracking_ref'[c])
    THEN commits[Unwrap(tracking_ref'[c])].state
    ELSE DefaultState

\* C24: the state committed by a push attempt has as parents exactly the
\* identifier of the state its reconcile returned (none when there was none),
\* holds the configured namespace, and holds every other namespace exactly as
\* the reconciled state holds it.
C24_CommittedStateExtendsReconciled ==
    [][\A c \in Clients :
        (event'.op = "commit" /\ event'.client = c) =>
            LET n == Len(commits')
                committed == commits'[n].state
                name == config[c].namespace
            IN  /\ n = Len(commits) + 1
                /\ committed.parents = ResolveStateRef(tracking_ref'[c])
                /\ DOMAIN committed.namespaces
                       = DOMAIN ReconciledState(c).namespaces \cup {name}
                /\ committed.namespaces[name] = NamespaceRefOf(n)
                /\ \A k \in DOMAIN committed.namespaces \ {name} :
                       committed.namespaces[k] = ReconciledState(c).namespaces[k]]_vars

\* A push attempt committed a state on a reconciled state that held the
\* other namespace and not the configured one.
C24_Witness ==
    /\ event.op = "commit"
    /\ LET n == Len(commits)
           name == config[event.client].namespace
       IN  /\ Len(commits[n].state.parents) = 1
           /\ DOMAIN commits[n].state.namespaces = NamespaceNames
           /\ name \notin DOMAIN commits[commits[n].state.parents[1].sha256].state.namespaces

\* ----------------------------------------------- reconcile: adopt and drop

\* The step just taken worked on the empty state: a commit was built on no
\* parent and holds only the configured namespace, a fetch indexed nothing.
WorkedOnEmptyState(c) ==
    /\ event'.op = "commit" =>
           /\ commits'[Len(commits')].state.parents = <<>>
           /\ DOMAIN commits'[Len(commits')].state.namespaces
                  = {config[c].namespace}
    /\ event'.op = "fetch" => event'.packs = <<>>

\* C25: a reconcile that finds no tracking state and a candidate sets the
\* tracking ref to the candidate, whatever the candidate's history; one that
\* finds a tracking state and no candidate deletes the tracking ref and works
\* on the empty state; one that finds neither leaves the tracking ref absent
\* and works on the empty state. None of them ends in RatchetError.
C25_AdoptDropEmpty ==
    [][\A c \in Clients :
        (ReconcileStep(c) /\ ~(IsSome(tracking_ref[c]) /\ IsSome(upstream))) =>
            /\ event'.result # "RatchetError"
            /\ tracking_ref'[c] = upstream
            /\ ~IsSome(upstream) => WorkedOnEmptyState(c)]_vars

\* A push attempt found a tracking state and no candidate, deleted the
\* tracking ref and committed a state without parents.
C25_Witness ==
    /\ event.op = "commit"
    /\ IsSome(event.from)
    /\ ~IsSome(upstream)
    /\ ~IsSome(tracking_ref[event.client])
    /\ commits[Len(commits)].state.parents = <<>>

\* ------------------------------------- update.rs: the ratchet walk, stepwise

\* The most parents a stored state names.
MaxFanout == 2

\* The longest stack the walk is followed to.
MaxStack == 4

\* The stored states, named by their inner hash; the walk starts from 1.
StoredStates == {1, 2, 3}
Future == 1

\* The parent lists a stored state can hold: no parent twice.
ParentLists ==
    UNION {{list \in [1..k -> StoredStates] :
               \A i, j \in 1..k : i # j => list[i] # list[j]} :
           k \in 0..MaxFanout}

\* How decode_state can end: with the state; with the bail of
\* unverified::decode when the inner hash differs; with a HashError of the
\* record reader; with any other error.
DecodeOutcomes == {"Ok", "Expected sha256", "HashError", "Other"}

\* e.downcast_ref::<HashError>() is Some
IsHashError(outcome) == outcome = "HashError"

\* A parent graph, one stored state at most that does not decode, a current
\* state, and valid_path_exists entered: the stack holds `future`, and the
\* function has returned true already when current and future are the same.
InitWalk ==
    /\ InitStores
    /\ InitProtocol
    /\ config[2].namespace = "a"
    /\ InitLoop
    /\ odb = <<>> /\ last_push = NoPush /\ last_batch = NoBatch
    /\ payload = NoPayload /\ encoded = None
    /\ decoded = NoDecode /\ reencoded = None
    /\ mem_state = [namespaces |-> <<>>, parents |-> <<>>]
    /\ serialized = None /\ deserialized = None /\ reserialized = None
    /\ mem_namespace = NoNamespace
    /\ namespace_back = None
    /\ InitMain
    /\ stage = [p \in Processes |-> "start"]
    /\ flock = {}
    /\ commands = [p \in Processes |-> 0]
    /\ parents_of \in [StoredStates -> ParentLists]
    /\ \E failing \in StoredStates, outcome \in DecodeOutcomes :
           decodes_as = [n \in StoredStates |->
                            IF n = failing THEN outcome ELSE "Ok"]
    /\ walk_current \in StoredStates
    /\ walk_stack = <<Future>>
    /\ walk_result = IF walk_current = Future THEN "true" ELSE "running"

\* The walk pops a state that decodes and names `current` as a parent.
WalkFound ==
    /\ walk_result = "running"
    /\ walk_stack # <<>>
    /\ LET traverse == walk_stack[Len(walk_stack)]
       IN  /\ decodes_as[traverse] = "Ok"
           /\ \E i \in 1..Len(parents_of[traverse]) :
                  parents_of[traverse][i] = walk_current
    /\ walk_result' = "true"
    /\ walk_stack' = SubSeq(walk_stack, 1, Len(walk_stack) - 1)
    /\ UNCHANGED <<parents_of, decodes_as, walk_current, protocol_vars,
                   loop_vars, ff_vars, codec_vars, ser_vars, main_vars, lock_vars,
                   store_vars>>

\* The walk pops a state that decodes and does not name `current`: its
\* parents are appended to the stack.
WalkDescend ==
    /\ walk_result = "running"
    /\ walk_stack # <<>>
    /\ LET traverse == walk_stack[Len(walk_stack)]
           rest == SubSeq(walk_stack, 1, Len(walk_stack) - 1)
       IN  /\ decodes_as[traverse] = "Ok"
           /\ \A i \in 1..Len(parents_of[traverse]) :
                  parents_of[traverse][i] # walk_current
           /\ Len(rest) + Len(parents_of[traverse]) <= MaxStack
           /\ walk_stack' = rest \o parents_of[traverse]
    /\ UNCHANGED <<parents_of, decodes_as, walk_current, walk_result,
                   protocol_vars, loop_vars, ff_vars, codec_vars, ser_vars,
                   main_vars, lock_vars,
                   store_vars>>

\* The walk pops a state whose decode fails: a HashError is passed over, any
\* other error is returned ("traverse sha256 history").
WalkDecodeFails ==
    /\ walk_result = "running"
    /\ walk_stack # <<>>
    /\ LET traverse == walk_stack[Len(walk_stack)]
       IN  /\ decodes_as[traverse] # "Ok"
           /\ walk_result' = IF IsHashError(decodes_as[traverse])
                             THEN walk_result
                             ELSE "error"
    /\ walk_stack' = SubSeq(walk_stack, 1, Len(walk_stack) - 1)
    /\ UNCHANGED <<parents_of, decodes_as, walk_current, protocol_vars,
                   loop_vars, ff_vars, codec_vars, ser_vars, main_vars, lock_vars,
                   store_vars>>

\* The stack is empty: "Failed to find a path back."
WalkExhausted ==
    /\ walk_result = "running"
    /\ walk_stack = <<>>
    /\ walk_result' = "false"
    /\ UNCHANGED <<parents_of, decodes_as, walk_current, walk_stack,
                   protocol_vars, loop_vars, ff_vars, codec_vars, ser_vars,
                   main_vars, lock_vars,
                   store_vars>>

NextWalk ==
    \/ WalkFound
    \/ WalkDescend
    \/ WalkDecodeFails
    \/ WalkExhausted

\* valid_path_exists is a sequential loop: it takes its next step whenever it
\* has one.
SpecWalk == InitWalk /\ [][NextWalk]_vars /\ WF_vars(NextWalk)

\* ---------------------------------------------------- ratchet walk properties

\* C26: when the walk pops a state whose content does not match its inner
\* hash, it passes over it: it returns no error and goes on with the rest of
\* the stack.
C26_IntegrityFailureSkipped ==
    [][(/\ walk_result = "running"
        /\ walk_stack # <<>>
        /\ decodes_as[walk_stack[Len(walk_stack)]] = "Expected sha256") =>
            /\ walk_result' = "running"
            /\ walk_stack' = SubSeq(walk_stack, 1, Len(walk_stack) - 1)]_vars

RECURSIVE ReachedOutside(_, _, _)
ReachedOutside(hashes, halt, k) ==
    IF k = 0
    THEN hashes
    ELSE ReachedOutside(
             hashes \cup (UNION {InnerParents(h) : h \in hashes} \ halt),
             halt, k - 1)

\* The states reachable from the tip by parent links without passing through
\* the basis state; tip and basis are Options of commit ids.
WalkedStates(tip, basis) ==
    LET halt == IF IsSome(basis) THEN {Unwrap(basis)} ELSE {}
    IN  IF IsSome(tip)
        THEN ReachedOutside({Unwrap(tip)} \ halt, halt, Len(commits))
        ELSE {}

\* C28: a successful fetch collects the packs that the namespace holds in
\* exactly the states reachable from the reconciled tip by parent links
\* without passing through the state of the basis ref, one pack per such state
\* that has one; when the tip is the basis state it collects no pack.
C28_FetchWalksBackToBasis ==
    [][\A c \in Fetchers :
        (/\ event'.op = "fetch"
         /\ event'.client = c
         /\ event'.result = "Ok") =>
            LET name == config[c].namespace
                walked == WalkedStates(tracking_ref'[c], basis_ref[c])
            IN  /\ Range(event'.packs)
                       = UNION {Range(PackAt(name, h)) : h \in walked}
                /\ Len(event'.packs)
                       = Cardinality({h \in walked : IsSome(PackAt(name, h))})
                /\ tracking_ref'[c] = basis_ref[c] => event'.packs = <<>>]_vars

\* A fetch of an upstream that holds packs found the basis ref on the tip and
\* indexed nothing.
C28_Witness ==
    /\ event.op = "fetch"
    /\ event.result = "Ok"
    /\ event.packs = <<>>
    /\ IsSome(tracking_ref[event.client])
    /\ basis_ref[event.client] = tracking_ref[event.client]
    /\ IsSome(PackAt(config[event.client].namespace,
                     Unwrap(tracking_ref[event.client])))

\* C29: the basis ref of a client changes only in a fetch of that client that
\* returns Ok, after every pack its walk collected was indexed; it is then the
\* reconciled commit. A list, a push attempt, a failing reconcile, a failing
\* walk, a failing fetch_pack or `git fetch` leave it as it was.
C29_BasisWrittenAtEndOfFetch ==
    [][\A c \in Clients :
        basis_ref'[c] # basis_ref[c] =>
            /\ event'.op = "fetch"
            /\ event'.client = c
            /\ event'.result = "Ok"
            /\ basis_ref'[c] = tracking_ref'[c]
            /\ Len(event'.packs)
                   = Cardinality({h \in WalkedStates(tracking_ref'[c], basis_ref[c]) :
                                     IsSome(PackAt(config[c].namespace, h))})]_vars

\* A fetch indexed a pack, failed after it, and left the basis ref behind the
\* tracking ref it had just advanced.
C29_Witness ==
    /\ event.op = "fetch_interrupted"
    /\ Len(event.packs) >= 1
    /\ IsSome(tracking_ref[event.client])
    /\ event.from # tracking_ref[event.client]
    /\ basis_ref[event.client] # tracking_ref[event.client]

\* ------------------------------------------------- pack references per state

\* The PackRefs that the state with inner hash h holds, over all namespaces.
PackRefsOf(h) ==
    UNION {Range(PackAt(k, h)) : k \in DOMAIN commits[h].state.namespaces}

\* C30: of two different states of the upstream branch's history, one a
\* descendant of the other, the later one holds no PackRef that the earlier
\* one holds.
C30_PackRefInOneState ==
    \A earlier, later \in published :
        (/\ earlier # later
         /\ InnerDescendantOrEqual(later, earlier)) =>
            PackRefsOf(earlier) \cap PackRefsOf(later) = {}

\* ------------------------------------------------- reconcile: the scratch ref

\* C35: a reconcile leaves the scratch ref absent when the upstream has no
\* branch and on the upstream tip when it has one, whatever the scratch ref
\* held before; the candidate of the ratchet is that tip: a reconcile that
\* does not end in RatchetError leaves the tracking ref equal to the upstream,
\* and a commit built after it is built on the upstream tip.
C35_ScratchRefRefetched ==
    [][\A c \in Clients :
        (/\ event'.client = c
         /\ event'.op \in {"list", "fetch", "fetch_interrupted", "commit", "push"}
         /\ ~(event'.op = "push" /\ event'.result = "Ok")) =>
            /\ event'.op # "commit" => pushing_ref'[c] = upstream
            /\ event'.op = "commit" => commits'[Len(commits')].parent = upstream
            /\ event'.result # "RatchetError" => tracking_ref'[c] = upstream]_vars

\* A reconcile found a commit in the scratch ref that is not the upstream
\* tip, and no upstream branch: it left the scratch ref absent.
C35_Witness ==
    /\ event.op = "list"
    /\ IsSome(event.from)
    /\ ~IsSome(upstream)
    /\ ~IsSome(pushing_ref[event.client])
    /\ ~IsSome(tracking_ref[event.client])

\* ------------------------------------------------------ reconcile: rollback

\* The state with inner hash f is reachable from the state with inner hash c
\* by one parent link or more.
StrictAncestor(f, c) == f # c /\ InnerDescendantOrEqual(c, f)

\* C38: a reconcile that finds the upstream branch on a state from which the
\* tracking state descends (the branch was rolled back) ends in RatchetError
\* and leaves the tracking ref on the tracking state.
C38_RollbackRejected ==
    [][\A c \in Clients :
        (/\ ReconcileStep(c)
         /\ IsSome(tracking_ref[c])
         /\ IsSome(upstream)
         /\ StrictAncestor(Unwrap(upstream), Unwrap(tracking_ref[c]))) =>
            /\ event'.result = "RatchetError"
            /\ tracking_ref'[c] = tracking_ref[c]
            /\ last_tracked'[c] = last_tracked[c]]_vars

\* A reconcile ended in RatchetError with the tracking ref still on a state
\* that descends from the state the upstream branch was rolled back to.
C38_Witness ==
    /\ event.result = "RatchetError"
    /\ event.client \in Clients
    /\ IsSome(upstream)
    /\ tracking_ref[event.client] = event.from
    /\ IsSome(event.from)
    /\ StrictAncestor(Unwrap(upstream), Unwrap(event.from))

\* ------------------------------------------------ reconcile after own push

\* C39: when the step after a client's successful push is a reconcile of the
\* same client, it does not end in RatchetError and sets the tracking ref to
\* the pushed commit; the parents of the pushed state are exactly the StateRef
\* resolved from the tracking ref the reconcile starts from.
C39_OwnPushAdvancesTracking ==
    [][\A c \in Clients :
        (/\ event.op = "push"
         /\ event.result = "Ok"
         /\ event.client = c
         /\ ReconcileStep(c)) =>
            /\ event'.result # "RatchetError"
            /\ tracking_ref'[c] = pushing_ref[c]
            /\ commits[Unwrap(pushing_ref[c])].state.parents
                   = ResolveStateRef(tracking_ref[c])]_vars

\* A list of the pusher moved its tracking ref from the state it had pushed
\* onto to the state it pushed, which names the former as its only parent.
C39_Witness ==
    /\ event.op = "list"
    /\ event.result = "Ok"
    /\ IsSome(event.from)
    /\ IsSome(upstream)
    /\ tracking_ref[event.client] = upstream
    /\ pushing_ref[event.client] = upstream
    /\ event.from # upstream
    /\ WroteCommit(event.client, Unwrap(upstream))
    /\ commits[Unwrap(upstream)].state.parents = ResolveStateRef(event.from)

\* ------------------------------------------------------- retry after a race

\* C40: when the step after an attempt classified Retry, with the upstream
\* branch on the winner's commit, is the same client's next commit, the
\* committed state names the state of the upstream tip (the
\* winner's) as its only parent, holds the winner's entry for every namespace
\* other than the pusher's, and continues the winner's record of the pusher's
\* namespace when the winner's state has one.
C40_RetryBuildsOnWinner ==
    [][\A c \in Clients :
        (/\ event.op = "push"
         /\ event.result = "Retry"
         /\ event.client = c
         /\ IsSome(upstream)
         /\ event'.op = "commit"
         /\ event'.client = c) =>
            LET n == Len(commits')
                committed == commits'[n].state
                name == config[c].namespace
            IN  /\ tracking_ref'[c] = upstream
                /\ committed.parents = <<StateRefOf(Unwrap(upstream))>>
                /\ LET winner == commits[Unwrap(upstream)].state
                   IN  /\ \A k \in DOMAIN winner.namespaces \ {name} :
                              /\ k \in DOMAIN committed.namespaces
                              /\ committed.namespaces[k] = winner.namespaces[k]
                       /\ name \in DOMAIN winner.namespaces =>
                              commits'[n].namespace.random_name
                                  = DecodeNamespace(winner.namespaces[name]).random_name]_vars

\* A client committed on the state of another client's push into another
\* namespace, after its own first commit on the same parents was never
\* accepted upstream; the new state holds both namespaces.
C40_Witness ==
    /\ event.op = "commit"
    /\ Len(commits) = 3
    /\ WroteCommit(event.client, 3)
    /\ WroteCommit(event.client, 1)
    /\ ~WroteCommit(event.client, 2)
    /\ 1 \notin published
    /\ 2 \in published
    /\ commits[1].state.parents = commits[2].state.parents
    /\ commits[3].state.parents = <<StateRefOf(2)>>
    /\ DOMAIN commits[3].state.namespaces = NamespaceNames

\* ----------------------------------------------------- conversion round trip

\* derive(PartialEq) on State: the namespaces as maps, the parents as vectors.
StateEqual(a, b) ==
    /\ Range(a.namespaces) = Range(b.namespaces)
    /\ Len(a.namespaces) = Len(b.namespaces)
    /\ a.parents = b.parents

\* derive(PartialEq) on Namespace
NamespaceEqual(a, b) ==
    /\ Range(a.refs) = Range(b.refs)
    /\ Len(a.refs) = Len(b.refs)
    /\ a.pack = b.pack
    /\ a.random_name = b.random_name

\* The conversion back did not fail and gave a Namespace equal to the
\* original.
NamespaceBackEqual ==
    IsSome(namespace_back) =>
        /\ Unwrap(namespace_back).ok
        /\ NamespaceEqual(Unwrap(namespace_back).value, mem_namespace)

\* C36 as stated: the State read back equals the original State, and the
\* Namespace converted back equals the original Namespace.
C36_Original ==
    /\ IsSome(deserialized) => StateEqual(Unwrap(deserialized), mem_state)
    /\ NamespaceBackEqual

\* The parents are in the order of derive(Ord) on SerializedBlobRef.
ParentsSorted(parents) ==
    \A i, j \in 1..Len(parents) :
        i < j => BlobRefLessOrEqual(parents[i], parents[j])

\* C36: the State read back holds the namespaces of the original, and the
\* parents of the original in sorted order, so it equals the original when the
\* original held its parents sorted; the Namespace converted back equals the
\* original Namespace, and its conversion does not fail.
C36_ConversionRoundTrip ==
    /\ IsSome(deserialized) =>
           LET back == Unwrap(deserialized)
           IN  /\ Range(back.namespaces) = Range(mem_state.namespaces)
               /\ Len(back.namespaces) = Len(mem_state.namespaces)
               /\ Len(back.parents) = Len(mem_state.parents)
               /\ \A x \in Range(mem_state.parents) \cup Range(back.parents) :
                      Cardinality({i \in 1..Len(back.parents) : back.parents[i] = x})
                          = Cardinality({i \in 1..Len(mem_state.parents) :
                                            mem_state.parents[i] = x})
               /\ ParentsSorted(back.parents)
               /\ ParentsSorted(mem_state.parents) =>
                      StateEqual(back, mem_state)
    /\ NamespaceBackEqual

\* A Namespace with two refs and a pack of two blobs was converted and came
\* back with the refs yielded in the other order.
C36_Witness ==
    /\ IsSome(namespace_back)
    /\ Len(mem_namespace.refs) = 2
    /\ IsSome(mem_namespace.pack)
    /\ Len(Unwrap(mem_namespace.pack).blob_ref.resource_key) = 2
    /\ Unwrap(namespace_back).value.refs[1] = mem_namespace.refs[2]

\* ------------------------------------------------------------ chunk sizes

\* The byte sequences of a sequence, one after the other.
RECURSIVE Concatenated(_)
Concatenated(seqs) ==
    IF seqs = <<>> THEN <<>> ELSE Head(seqs) \o Concatenated(Tail(seqs))

\* C37: the resource key of an unencrypted payload names at least one blob;
\* no blob holds more bytes than the chunk size, every blob but the last holds
\* exactly the chunk size, the blobs in order make up the payload, and the
\* empty payload gives exactly one empty blob.
C37_ChunksFillToSize ==
    (IsSome(encoded) /\ ~IsSome(payload.key)) =>
        LET oids == Unwrap(encoded).blob_ref.resource_key
            blobs == [i \in 1..Len(oids) |-> FindBlob(oids[i])]
        IN  /\ Len(blobs) >= 1
            /\ \A i \in 1..Len(blobs) : Len(blobs[i]) <= payload.chunk_size
            /\ \A i \in 1..Len(blobs) - 1 : Len(blobs[i]) = payload.chunk_size
            /\ Concatenated(blobs) = payload.bytes
            /\ payload.bytes = <<>> => blobs = <<(<<>>)>>

\* An unencrypted payload one byte longer than the chunk size was encoded
\* into a full blob and a blob of one byte.
C37_Witness ==
    /\ IsSome(encoded)
    /\ ~IsSome(payload.key)
    /\ Len(payload.bytes) = payload.chunk_size + 1
    /\ Len(Unwrap(encoded).blob_ref.resource_key) = 2
    /\ Len(FindBlob(Unwrap(encoded).blob_ref.resource_key[2])) = 1

\* ---------------------------------------------------------------------------
\* The anchor refs of the objects-ever store (cmd_fetch.rs, cmd_push.rs).
\* Every rev fetched or pushed gets a ref refs/heads/<remote>/rev<oid> in the
\* objects-ever store; fetch ends with compact_ref_reachability.
\* ---------------------------------------------------------------------------

\* compact_ref_reachability compacts when there are more refs than this.
CompactThreshold == 50

\* The commits the objects-ever store may hold.
MaxAnchored == 64

\* The revs one fetch or push names.
MaxRevs == 2

\* The commits reachable from a set of commits, through their parents.
RECURSIVE ReachableCommits(_, _)
ReachableCommits(from, objects) ==
    LET next == from \cup UNION {objects[c] : c \in from}
    IN  IF next = from THEN from ELSE ReachableCommits(next, objects)

\* The objects-ever store after n revs unknown to it arrived: each is a commit
\* of the user's history, which the model keeps without parents.
WithRevs(objects, n) ==
    [i \in 1..(Len(objects) + n) |->
        IF i <= Len(objects) THEN objects[i] ELSE {}]

\* compact_ref_reachability that commits the merge without parents.
CompactRefReachability_NoParents(refs, objects) ==
    LET ref_commits == refs
    IN  IF Cardinality(ref_commits) > CompactThreshold
        THEN [refs |-> {Len(objects) + 1},
              commits |-> Append(objects, {})]
        ELSE [refs |-> refs, commits |-> objects]

\* compact_ref_reachability: with more than fifty refs under the prefix, one
\* commit whose parents are the commits of all of them, under a ref with a
\* fresh uuid name, and then the refs that were listed are deleted.
CompactRefReachability(refs, objects) ==
    LET ref_commits == refs
    IN  IF Cardinality(ref_commits) > CompactThreshold
        THEN [refs |-> {Len(objects) + 1},
              commits |-> Append(objects, ref_commits)]
        ELSE [refs |-> refs, commits |-> objects]

\* The local stores of a remote nothing was fetched from or pushed to.
InitLocalStores ==
    /\ InitStores
    /\ InitProtocol
    /\ config[2].namespace = "a"
    /\ InitLoop
    /\ odb = <<>>
    /\ last_push = NoPush
    /\ last_batch = NoBatch
    /\ InitCodec

\* push: every pushed rev is pushed to refs/heads/<remote>/rev<rev> of the
\* objects-ever store; push does not compact.
PushAnchors ==
    \E n \in 1..MaxRevs :
        /\ Len(ever_commits) + n <= MaxAnchored
        /\ LET objects == WithRevs(ever_commits, n)
               revs == (Len(ever_commits) + 1)..(Len(ever_commits) + n)
           IN  /\ ever_commits' = objects
               /\ anchor_refs' = anchor_refs \cup revs
               /\ anchor_op' = [op |-> "push", refs |-> anchor_refs,
                                commits |-> ever_commits]
        /\ UNCHANGED <<gc_auto, maintenance, initialized>>
        /\ UNCHANGED <<protocol_vars, loop_vars, ff_vars, codec_vars,
                       ser_vars, main_vars, lock_vars, walk_vars>>

\* fetch: a ref for every fetched rev, then compact_ref_reachability. A fetch
\* may name no rev, and may name revs the store has a ref for already.
FetchAnchors ==
    \E n \in 0..MaxRevs :
        /\ Len(ever_commits) + n + 1 <= MaxAnchored
        /\ LET objects == WithRevs(ever_commits, n)
               revs == (Len(ever_commits) + 1)..(Len(ever_commits) + n)
               refs == anchor_refs \cup revs
               compacted == CompactRefReachability(refs, objects)
           IN  /\ ever_commits' = compacted.commits
               /\ anchor_refs' = compacted.refs
               /\ anchor_op' = [op |-> "fetch", refs |-> refs,
                                commits |-> objects]
        /\ UNCHANGED <<gc_auto, maintenance, initialized>>
        /\ UNCHANGED <<protocol_vars, loop_vars, ff_vars, codec_vars,
                       ser_vars, main_vars, lock_vars, walk_vars>>

NextAnchors == PushAnchors \/ FetchAnchors

SpecAnchors == InitLocalStores /\ [][NextAnchors]_vars

\* C32: anchor compaction never shrinks the set of commits reachable from the
\* anchor refs: with fifty anchors or fewer it changes neither the refs nor
\* the commits, and with more than fifty it leaves exactly one anchor, on a
\* new commit whose parents are all the commits the anchors pointed at.
C32_CompactionKeepsReachability ==
    anchor_op.op = "fetch" =>
        /\ ReachableCommits(anchor_op.refs, anchor_op.commits)
               \subseteq ReachableCommits(anchor_refs, ever_commits)
        /\ Cardinality(anchor_op.refs) <= CompactThreshold =>
               /\ anchor_refs = anchor_op.refs
               /\ ever_commits = anchor_op.commits
        /\ Cardinality(anchor_op.refs) > CompactThreshold =>
               /\ Cardinality(anchor_refs) = 1
               /\ \A c \in anchor_refs :
                      /\ c \notin DOMAIN anchor_op.commits
                      /\ ever_commits[c] = anchor_op.refs

\* A fetch found more than fifty anchors and compacted them.
C32_Witness ==
    /\ anchor_op.op = "fetch"
    /\ Cardinality(anchor_op.refs) = CompactThreshold + 1
    /\ Cardinality(anchor_refs) = 1

\* ---------------------------------------------------------------------------
\* initialize_state_repo (main.rs): git gc --auto on the tracking store and on
\* the objects-ever store, in two scoped threads, then the Config.
\* ---------------------------------------------------------------------------

\* What JoinHandle::join gives for a thread: Err when it panicked, else Ok of
\* the bool report_error returned.
JoinThread(thread) ==
    IF thread.pc = "panicked"
    THEN [ok |-> FALSE, value |-> FALSE]
    ELSE [ok |-> TRUE, value |-> thread.reported]

\* Result::and: the second result when the first is Ok, else the first.
ResultAnd(first, second) == IF first.ok THEN second ELSE first

\* finalize_initialize_state_repo: the Config for Ok(true), else an error.
FinalizeInitializeStateRepo(all_ops_success, config_new) ==
    IF ~all_ops_success.ok THEN "Failed to join initialize threads."
    ELSE IF ~all_ops_success.value
         THEN "An initialize threaded operation failed; see logs."
         ELSE config_new

\* A thread's closure returned: report_error turns its Result into a bool.
Reported(outcome) ==
    [pc |-> "returned", outcome |-> outcome, reported |-> (outcome = "ok")]

\* git_special_remote_main calls initialize_state_repo, which spawns the two
\* threads; every run of the helper does.
SpawnThreads ==
    /\ initialized # "running"
    /\ maintenance' = [s \in Stores |->
                          [pc |-> "start", outcome |-> "none",
                           reported |-> FALSE]]
    /\ initialized' = "running"
    /\ UNCHANGED <<anchor_refs, ever_commits, anchor_op, gc_auto>>
    /\ UNCHANGED <<protocol_vars, loop_vars, ff_vars, codec_vars,
                   ser_vars, main_vars, lock_vars, walk_vars>>

\* The thread opens its store (args.tracking_repo()? or
\* args.all_objects_ever_repo()?), which can fail.
OpenStore(s) ==
    /\ maintenance[s].pc = "start"
    /\ \E opened \in BOOLEAN :
          maintenance' = [maintenance EXCEPT ![s] =
              IF opened THEN [@ EXCEPT !.pc = "opened"]
              ELSE Reported("open failed")]
    /\ UNCHANGED <<anchor_refs, ever_commits, anchor_op, gc_auto, initialized>>
    /\ UNCHANGED <<protocol_vars, loop_vars, ff_vars, codec_vars,
                   ser_vars, main_vars, lock_vars, walk_vars>>

\* git_gc_auto_with_config_impl, up to run_gc: the config path is taken with
\* expect, gc.auto = 6700 and gc.autoDetach = false are set and the file is
\* written.
EnableGcAuto(s) ==
    /\ maintenance[s].pc = "opened"
    /\ \E step \in {"written", "write failed", "panicked"} :
          /\ maintenance' = [maintenance EXCEPT ![s] =
                CASE step = "written" -> [@ EXCEPT !.pc = "configured"]
                  [] step = "write failed" -> Reported("write failed")
                  [] OTHER -> [@ EXCEPT !.pc = "panicked",
                                        !.outcome = "panicked"]]
          /\ gc_auto' = IF step = "written"
                        THEN [gc_auto EXCEPT ![s] = "6700"]
                        ELSE gc_auto
    /\ UNCHANGED <<anchor_refs, ever_commits, anchor_op, initialized>>
    /\ UNCHANGED <<protocol_vars, loop_vars, ff_vars, codec_vars,
                   ser_vars, main_vars, lock_vars, walk_vars>>

\* run_gc(repo.path()).context("git gc --auto")?: git gc --auto runs, and a
\* failure returns from the function at once.
RunGc(s) ==
    /\ maintenance[s].pc = "configured"
    /\ \E success \in BOOLEAN :
          maintenance' = [maintenance EXCEPT ![s] =
              IF success THEN [@ EXCEPT !.pc = "gc_done"]
              ELSE Reported("gc failed")]
    /\ UNCHANGED <<anchor_refs, ever_commits, anchor_op, gc_auto, initialized>>
    /\ UNCHANGED <<protocol_vars, loop_vars, ff_vars, codec_vars,
                   ser_vars, main_vars, lock_vars, walk_vars>>

\* After run_gc: gc.auto = 0 is set and the file is written. The thread of the
\* tracking store is done then; that of the objects-ever store goes on to
\* cleanup_keep_files.
DisableGcAuto(s) ==
    /\ maintenance[s].pc = "gc_done"
    /\ \E written \in BOOLEAN :
          /\ maintenance' = [maintenance EXCEPT ![s] =
                IF ~written THEN Reported("write failed")
                ELSE IF s = "all_objects_ever"
                     THEN [@ EXCEPT !.pc = "gc_auto_reset"]
                     ELSE Reported("ok")]
          /\ gc_auto' = IF written THEN [gc_auto EXCEPT ![s] = "0"]
                        ELSE gc_auto
    /\ UNCHANGED <<anchor_refs, ever_commits, anchor_op, initialized>>
    /\ UNCHANGED <<protocol_vars, loop_vars, ff_vars, codec_vars,
                   ser_vars, main_vars, lock_vars, walk_vars>>

\* cleanup_keep_files on the pack directory of the objects-ever store.
CleanupKeepFiles ==
    /\ maintenance["all_objects_ever"].pc = "gc_auto_reset"
    /\ \E cleaned \in BOOLEAN :
          maintenance' = [maintenance EXCEPT !["all_objects_ever"] =
              IF cleaned THEN Reported("ok") ELSE Reported("cleanup failed")]
    /\ UNCHANGED <<anchor_refs, ever_commits, anchor_op, gc_auto, initialized>>
    /\ UNCHANGED <<protocol_vars, loop_vars, ff_vars, codec_vars,
                   ser_vars, main_vars, lock_vars, walk_vars>>

\* t1.join().and(t2.join()) once both threads ended, then
\* finalize_initialize_state_repo; Config::new can fail on its own.
JoinThreads ==
    /\ initialized = "running"
    /\ \A s \in Stores : maintenance[s].pc \in {"returned", "panicked"}
    /\ \E config_new \in {"Config", "Config::new failed"} :
          initialized' = FinalizeInitializeStateRepo(
              ResultAnd(JoinThread(maintenance["tracking"]),
                        JoinThread(maintenance["all_objects_ever"])),
              config_new)
    /\ UNCHANGED <<anchor_refs, ever_commits, anchor_op, gc_auto, maintenance>>
    /\ UNCHANGED <<protocol_vars, loop_vars, ff_vars, codec_vars,
                   ser_vars, main_vars, lock_vars, walk_vars>>

NextInitialize ==
    \/ SpawnThreads
    \/ \E s \in Stores :
          \/ OpenStore(s)
          \/ EnableGcAuto(s)
          \/ RunGc(s)
          \/ DisableGcAuto(s)
    \/ CleanupKeepFiles
    \/ JoinThreads

SpecInitialize == InitLocalStores /\ [][NextInitialize]_vars

\* C33: whenever the maintenance of a store has returned, with success or
\* with a failure of git gc, the config file of the store has gc.auto = 0,
\* and gc.auto is 6700 only while the gc of the maintenance runs.
C33_GcAutoZeroAtRest ==
    \A s \in Stores :
        /\ (/\ maintenance[s].pc = "returned"
            /\ maintenance[s].outcome \in {"ok", "gc failed"})
               => gc_auto[s] = "0"
        /\ gc_auto[s] = "6700" => maintenance[s].pc = "configured"

\* C34: initialize_state_repo gives a Config only when both threads reported
\* success, and an error whenever a thread reported failure or panicked.
C34_ConfigOnlyWhenBothSucceeded ==
    initialized \notin {"none", "running"} =>
        /\ initialized = "Config" =>
               \A s \in Stores : /\ maintenance[s].pc = "returned"
                                 /\ maintenance[s].reported
        /\ (\E s \in Stores : \/ maintenance[s].pc = "panicked"
                              \/ ~maintenance[s].reported)
               => initialized # "Config"

\* ---------------------------------------------------------------------------
\* The trees of the commits push produces.
\* ---------------------------------------------------------------------------

\* Commit n and the commits it was built on, back to the first of its lineage.
RECURSIVE Lineage(_)
Lineage(n) ==
    IF IsSome(commits[n].parent)
    THEN {n} \cup Lineage(Unwrap(commits[n].parent))
    ELSE {n}

\* The chunk objects the state of commit n refers to: its own encoding, the
\* records of its namespaces, and the packs those records hold.
ChunksReferenced(n) ==
    LET state == commits[n].state
        records == {state.namespaces[k] : k \in DOMAIN state.namespaces}
    IN  {ChunkObject("state", StateRefOf(n))}
            \cup {ChunkObject("namespace", namespace_ref) :
                     namespace_ref \in records}
            \cup {ChunkObject("pack", pack.blob_ref) :
                     pack \in UNION {Range(DecodeNamespace(namespace_ref).pack) :
                                        namespace_ref \in records}}

\* The paths that end in a logical name, which every push overwrites.
IsLogicalPath(path) ==
    path[Len(path)] \in {"state.bincode", "namespace.bincode"}

\* The entries commit n added under random names: its state, the record of
\* the pushed namespace and, when the push wrote a pack, the pack.
FreshEntries(n) ==
    LET namespace == commits[n].namespace
        name == NamespaceTreeName(namespace)
    IN  {TreeEntry(<<"state">> \o NameTreePath(n),
                   ChunkObject("state", StateRefOf(n))),
         TreeEntry(<<name, "namespace">> \o NameTreePath(n),
                   ChunkObject("namespace", NamespaceRefOf(n)))}
            \cup {TreeEntry(<<name, "pack">> \o NameTreePath(pack.random_name),
                            ChunkObject("pack", pack.blob_ref)) :
                     pack \in Range(namespace.pack)}

\* C31: the tree of every commit push produces holds, unchanged, every
\* random-named entry of the tree of the commit it was built on, and new
\* entries under fresh names for its state, its namespace record and its
\* pack; so every chunk object a state of its lineage refers to is in the
\* tree of the newest commit, although the logical names are overwritten.
C31_TreeKeepsEarlierEntries ==
    \A n \in DOMAIN commits :
        LET tree == commits[n].tree
            built_on == RootTree(commits[n].parent)
        IN  /\ \A e \in built_on : ~IsLogicalPath(e.path) => e \in tree
            /\ FreshEntries(n) \subseteq tree
            /\ \A e \in FreshEntries(n), old \in built_on : e.path # old.path
            /\ \A earlier \in Lineage(n) :
                   ChunksReferenced(earlier) \subseteq {e.oid : e \in tree}

\* A third commit of one lineage: state.bincode no longer names the state of
\* the first commit, whose chunks the tree still holds, and a pack of each of
\* two pushes is kept.
C31_Witness ==
    /\ Len(commits) = 3
    /\ Lineage(3) = {1, 2, 3}
    /\ TreeEntry(<<"state.bincode">>, ChunkObject("state", StateRefOf(1)))
           \in commits[1].tree
    /\ TreeEntry(<<"state.bincode">>, ChunkObject("state", StateRefOf(3)))
           \in commits[3].tree
    /\ \A e \in commits[3].tree :
           e.path = <<"state.bincode">> => e.oid.key = 3
    /\ IsSome(commits[1].namespace.pack)
    /\ IsSome(commits[3].namespace.pack)
    /\ Cardinality({e \in commits[3].tree : "pack" \in Range(e.path)}) >= 2

====
